---- MODULE Spec2Model ----
(***************************************************************************)
(* A model of the solar-vehicle energy simulator: the engine               *)
(* (models/vehicle_model.py), the energy-contribution models it runs       *)
(* (models/*.py) and the driver / sweep controller (main.py).              *)
(*                                                                         *)
(* Quantities are modelled by integer magnitudes in fixed units: energy in *)
(* Wh, power in W, time in seconds, angles in degrees, dimensionless       *)
(* fractions in percent or per-mille as noted.  Inputs are chosen so that  *)
(* every division the code performs is exact on them.                      *)
(***************************************************************************)
EXTENDS Integers, Sequences, FiniteSets, TLC

VARIABLES
    \* ---- the engine object (VehicleModel) ----
    init_params,    \* self.init_params: the very mapping the caller passed in
    params,         \* self.params: the live store
    models,         \* self.models
    battery_model,  \* self.battery_model
    \* ---- observation of the last engine operation ----
    baseline0,      \* content of the caller's mapping when the constructor ran
    lastOp,         \* name of the last operation performed
    calls,          \* models invoked by the last update(), in order, then "clamp"
    e0,             \* total_energy when the last update() began
    deltaSum,       \* sum of the deltas the models of the last update() returned
    excursion,      \* the last update() stored a total_energy outside
                    \* [0, battery_max_energy] between two model calls
    raised,         \* the last update() / model call raised
    ret,            \* value returned by the last direct model call
    callerMutated,  \* the caller changed its mapping after construction
    addAfterSet,    \* an add_model call followed a set_battery_model call
    resetDirty,     \* the last reset() found a store with an added key and a
                    \* changed initial value
    \* ---- the driver (main.py) ----
    pc,             \* position of the driver
    mode,           \* "direct" (main's else branch) or "grid" (grid_search)
    search_params,  \* grid_search's search_params, in insertion order
    configs,        \* search_configs
    cfgIdx,         \* index of the configuration being simulated
    total_steps,    \* run_simulation's total_steps
    stepIdx,        \* run_simulation's loop variable i
    current_time,   \* run_simulation's current_time (seconds)
    rows,           \* run_simulation's rows
    logs,           \* the data frames returned so far, one per finished run
    startStores,    \* the store at the start of each run's timestep loop
    afterUpdate,    \* the store right after each update() of the current run
    nUpdates,       \* update() calls made by the current run
    weather_model,  \* run_simulation's weather_model: "none" (None) or "loaded"
    weather_data,   \* weather_model.weather_data: the hourly records fetched
    fetch_reply,    \* how the current run's weather fetch ended: "skipped",
                    \* "error" or "data"
    fallbackLogged, \* the current run printed the weather fallback warning
    injected,       \* the store the last step handed to update()
    grid_args,      \* args.grid_search: the items given to --grid-search
    warned,         \* the items main skipped with a warning
    parsed,         \* main has parsed args.grid_search
    reported,       \* the names generate_graphs printed as not found in the
                    \* data of the last finished run
    \* ---- the desktop GUI (gui.py) ----
    is_running,     \* SimulationGUI.is_running
    run_button,     \* state of the Run button: "normal" or "disabled"
    progress_label, \* text of the progress label
    workers,        \* the worker threads started so far, each at its position
    clicks          \* Run clicks waiting in Tk's event queue

engineVars == <<init_params, params, models, battery_model>>
obsVars == <<baseline0, lastOp, calls, e0, deltaSum, excursion, raised, ret,
             callerMutated, addAfterSet, resetDirty>>
driverVars == <<pc, mode, search_params, configs, cfgIdx, total_steps, stepIdx,
                current_time, rows, logs, startStores, afterUpdate, nUpdates,
                weather_model, weather_data, fetch_reply, fallbackLogged, injected,
                grid_args, warned, parsed, reported>>
argVars == <<grid_args, warned, parsed>>
weatherVars == <<weather_model, weather_data, fetch_reply, fallbackLogged, injected>>
obsVarsButLastOp == <<baseline0, calls, e0, deltaSum, excursion, raised, ret,
                      callerMutated, addAfterSet, resetDirty>>
guiVars == <<is_running, run_button, progress_label, workers, clicks>>
vars == <<engineVars, obsVars, driverVars, guiVars>>

----------------------------------------------------------------------------
(* The parameter store: a dict, modelled as a function whose domain is the *)
(* set of keys present.                                                    *)

EmptyStore == [k \in {} |-> 0]

Has(p, k) == k \in DOMAIN p

HasAll(p, ks) == ks \subseteq DOMAIN p

\* params[k] = v
Put(p, k, v) == [x \in (DOMAIN p) \cup {k} |-> IF x = k THEN v ELSE p[x]]

\* copy.deepcopy(d) / d.copy(): a new mapping with the same content
DeepCopy(p) == [k \in DOMAIN p |-> p[k]]

\* dict.pop(k, None) on the caller's mapping
Remove(p, k) == [x \in (DOMAIN p) \ {k} |-> p[x]]

\* params.update(d): several assignments at once
PutAll(p, d) == [x \in (DOMAIN p) \cup (DOMAIN d) |-> IF x \in DOMAIN d THEN d[x] ELSE p[x]]

Min(a, b) == IF a <= b THEN a ELSE b

Max(a, b) == IF a >= b THEN a ELSE b

----------------------------------------------------------------------------
(* Energy-contribution models: update(params, timestep) -> energy delta.   *)
(* A model call yields [ok, params, delta]: ok is FALSE when the call      *)
(* raised (a missing key, a division by zero), and params then holds the   *)
(* writes made before the raise.                                           *)

Returned(p, d) == [ok |-> TRUE, params |-> p, delta |-> d]

Raised(p) == [ok |-> FALSE, params |-> p, delta |-> 0]

SecondsPerHour == 3600

\* (power * timestep) expressed in Wh; timestep is in seconds
Energy(power, ts) == (power * ts) \div SecondsPerHour

\* cos of an angle given in degrees, in per-mille, on the 60-degree grid
CosMilli(deg) ==
    LET a == deg % 360
    IN  CASE a = 0 -> 1000
          [] a = 60 \/ a = 300 -> 500
          [] a = 120 \/ a = 240 -> -500
          [] a = 180 -> -1000

SecondsPerDay == 86400

\* _incidence_factor: sin(alpha) = cos(lat) * cos(h) with zero declination,
\* h = (hours - 12) * 15 degrees; clamped to [-1, 1]; 0 when not positive.
\* The result is in per-mille.
IncidenceFactor(p) ==
    LET hourAngle == ((p["timestamp"] * 15) \div SecondsPerHour) - 180
        sin_alpha == (CosMilli(p["latitude_deg"]) * CosMilli(hourAngle)) \div 1000
        clamped == Max(-1000, Min(1000, sin_alpha))
    IN  IF clamped <= 0 THEN 0 ELSE clamped

\* BasicArrayModel.update
BasicArrayModel_update(p, ts) ==
    IF ~HasAll(p, {"num_cells", "p_mpp"}) THEN Raised(p)
    ELSE Returned(Put(p, "array_power", p["num_cells"] * p["p_mpp"]),
                  Energy(p["num_cells"] * p["p_mpp"], ts))

\* IrradianceArrayModel.update (cell_efficiency in percent)
IrradianceArrayModel_update(p, ts) ==
    IF ~HasAll(p, {"irradiance", "array_area", "cell_efficiency"}) THEN Raised(p)
    ELSE LET power == (p["irradiance"] * p["array_area"] * p["cell_efficiency"]) \div 100
         IN  Returned(Put(p, "array_power", power), Energy(power, ts))

\* SCPArrayModel.update: the incidence factor is defined on the class but
\* update() does not use it (cell_efficiency in percent)
SCPArrayModel_update(p, ts) ==
    IF ~HasAll(p, {"num_cells", "p_mpp", "cell_efficiency"}) THEN Raised(p)
    ELSE LET power == (p["num_cells"] * p["p_mpp"] * p["cell_efficiency"]) \div 100
         IN  Returned(Put(p, "array_power", power), Energy(power, ts))

\* SCPArrayModelWithIncidence.update
SCPArrayModelWithIncidence_update(p, ts) ==
    IF ~HasAll(p, {"latitude_deg", "timestamp"}) THEN Raised(p)
    ELSE IF ~HasAll(p, {"num_cells", "p_mpp", "cell_efficiency"}) THEN Raised(p)
    ELSE LET base_power == (p["num_cells"] * p["p_mpp"] * p["cell_efficiency"]) \div 100
             array_power == (base_power * IncidenceFactor(p)) \div 1000
             array_energy == Energy(array_power, ts)
             written == [array_power |-> array_power, array_energy |-> array_energy]
         IN  IF ~Has(p, "total_array_energy") THEN Raised(PutAll(p, written))
             ELSE Returned(PutAll(p, [array_power |-> array_power,
                                     array_energy |-> array_energy,
                                     total_array_energy |->
                                         p["total_array_energy"] + array_energy]),
                           array_energy)

\* _tau_theta for theta = acos(inc): Fresnel transmittance through a cover
\* of index n_cover = 1.5 without absorption, AR gain or tau_misc, clamped
\* to [0, 1]; in per-mille, for the incidence factors of the 60-degree grid.
TauTheta(inc) ==
    CASE inc >= 1000 -> 960
      [] inc >= 500 -> 911
      [] OTHER -> 736

IrradianceClearDefault == 1000

\* _cell_temperature (NOCT model) and _thermal_factor; temp_coeff is in
\* per-mille per degree, the factor in per-mille
ThermalFactor(p, G) ==
    Max(0, 1000 - p["temp_coeff"]
                  * ((p["ambient_temp"] + ((p["noct"] - 20) * G) \div 800) - p["t_ref"]))

\* the irradiance G = G_clear * inc of SCPArrayModelLamination.update
Irradiance(p, inc) ==
    ((IF Has(p, "irradiance_clear") THEN p["irradiance_clear"]
      ELSE IrradianceClearDefault) * inc) \div 1000

\* the daytime array_power of SCPArrayModelLamination.update:
\* G * A * eta * tau * f_T (cell_efficiency in percent)
LaminationPower(p, inc) ==
    (((((Irradiance(p, inc) * p["array_area"] * p["cell_efficiency"]) \div 100)
        * TauTheta(inc)) \div 1000) * ThermalFactor(p, Irradiance(p, inc))) \div 1000

\* the daytime branch of SCPArrayModelLamination.update
LaminationDay(p, ts, inc, power) ==
    IF ~Has(p, "total_array_energy")
    THEN Raised(PutAll(p, [array_power |-> power, array_energy |-> Energy(power, ts)]))
    ELSE Returned(PutAll(p, [array_power |-> power,
                             array_energy |-> Energy(power, ts),
                             total_array_energy |->
                                 p["total_array_energy"] + Energy(power, ts),
                             tau |-> TauTheta(inc),
                             irradiance |-> Irradiance(p, inc),
                             thermal_factor |-> ThermalFactor(p, Irradiance(p, inc))]),
                  Energy(power, ts))

\* the "Nighttime / no sun" branch of SCPArrayModelLamination.update
LaminationNight(p, ts) ==
    Returned(PutAll(p, [array_power |-> 0, array_energy |-> Energy(0, ts)]),
             Energy(0, ts))

\* SCPArrayModelLamination.update
SCPArrayModelLamination_update(p, ts) ==
    IF ~HasAll(p, {"latitude_deg", "timestamp"}) THEN Raised(p)
    ELSE IF IncidenceFactor(p) <= 0 THEN LaminationNight(p, ts)
    ELSE IF ~HasAll(p, {"n_cover", "t_cover", "alpha_cover", "t_eva", "alpha_eva",
                        "ambient_temp", "noct", "temp_coeff", "t_ref",
                        "array_area", "cell_efficiency"}) THEN Raised(p)
    ELSE LaminationDay(p, ts, IncidenceFactor(p), LaminationPower(p, IncidenceFactor(p)))

\* mutant: the wheel's power without the minus sign
WheelRRPower_Unsigned(p, weight) ==
    (weight * p["grav_accel"]) * (p["mu_rr"] + p["mu2_rr"] * p["velocity"]) * p["velocity"]

\* mutant: a vehicle with a depleted battery loses nothing at the wheel
WheelRRPower_Depleted(p, weight) ==
    IF p["total_energy"] = 0 THEN 0
    ELSE -((weight * p["grav_accel"]) * (p["mu_rr"] + p["mu2_rr"] * p["velocity"])
           * p["velocity"])

\* the power lost to rolling resistance at one wheel carrying `weight`
WheelRRPower(p, weight) ==
    -((weight * p["grav_accel"]) * (p["mu_rr"] + p["mu2_rr"] * p["velocity"])
      * p["velocity"])

\* the fields SCPRollingResistanceModel.update writes for the front wheels
FrontWheelFields(p) ==
    [total_mu |-> p["mu_rr"] + p["mu2_rr"] * p["velocity"],
     f_normal_force |-> p["f_wheel_weight"] * p["grav_accel"],
     f_rr_force |-> (p["f_wheel_weight"] * p["grav_accel"])
                    * (p["mu_rr"] + p["mu2_rr"] * p["velocity"]),
     f_rr_power |-> WheelRRPower(p, p["f_wheel_weight"])]

\* ... and for the rear wheel, with the total: two front wheels, one rear
RearWheelFields(p) ==
    [r_normal_force |-> p["r_wheel_weight"] * p["grav_accel"],
     r_rr_force |-> (p["r_wheel_weight"] * p["grav_accel"])
                    * (p["mu_rr"] + p["mu2_rr"] * p["velocity"]),
     r_rr_power |-> WheelRRPower(p, p["r_wheel_weight"]),
     rr_power |-> 2 * WheelRRPower(p, p["f_wheel_weight"])
                  + WheelRRPower(p, p["r_wheel_weight"])]

\* SCPRollingResistanceModel.update
SCPRollingResistanceModel_update(p, ts) ==
    IF ~HasAll(p, {"mu_rr", "mu2_rr", "velocity"}) THEN Raised(p)
    ELSE IF ~HasAll(p, {"f_wheel_weight", "grav_accel"})
    THEN Raised(PutAll(p, [total_mu |-> p["mu_rr"] + p["mu2_rr"] * p["velocity"]]))
    ELSE IF ~Has(p, "r_wheel_weight") THEN Raised(PutAll(p, FrontWheelFields(p)))
    ELSE Returned(PutAll(PutAll(p, FrontWheelFields(p)), RearWheelFields(p)),
                  Energy(2 * WheelRRPower(p, p["f_wheel_weight"])
                         + WheelRRPower(p, p["r_wheel_weight"]), ts))

\* drag_coeff_effective of SCPDragModel.update (weather_wind_modifier in percent)
DragCoeffEffective(p) ==
    IF Has(p, "weather_wind_modifier")
    THEN (p["drag_coeff"] * p["weather_wind_modifier"]) \div 100
    ELSE p["drag_coeff"]

\* mutant: the drag power without the minus sign
DragPower_Unsigned(p) ==
    (p["air_density"] * p["velocity"] * p["velocity"] * p["velocity"]
     * DragCoeffEffective(p) * p["frontal_area"]) \div 2

\* drag_power of SCPDragModel.update: -(0.5 * rho * v^3 * Cd * A)
DragPower(p) ==
    -((p["air_density"] * p["velocity"] * p["velocity"] * p["velocity"]
       * DragCoeffEffective(p) * p["frontal_area"]) \div 2)

\* SCPDragModel.update
SCPDragModel_update(p, ts) ==
    IF ~HasAll(p, {"drag_coeff", "air_density", "velocity", "frontal_area"})
    THEN Raised(p)
    ELSE Returned(PutAll(p, [drag_power |-> DragPower(p)]), Energy(DragPower(p), ts))

\* pack_resistance of ESRBatteryLossModel.update (weather_temp_modifier in percent)
PackResistance(p) ==
    IF Has(p, "weather_temp_modifier")
    THEN (((p["cell_internal_impedance"] \div p["cells_in_parallel"])
           * p["cells_in_series"]) * 100) \div p["weather_temp_modifier"]
    ELSE (p["cell_internal_impedance"] \div p["cells_in_parallel"]) * p["cells_in_series"]

\* current_draw of ESRBatteryLossModel.update
CurrentDraw(p) == (p["drag_power"] + p["rr_power"]) \div p["battery_voltage_nominal"]

\* mutant: the loss is linear in the current
BatteryPowerLoss_Linear(p) == CurrentDraw(p) * PackResistance(p)

\* battery_power_loss of ESRBatteryLossModel.update: I^2 * R
BatteryPowerLoss(p) == CurrentDraw(p) * CurrentDraw(p) * PackResistance(p)

\* ESRBatteryLossModel.update
ESRBatteryLossModel_update(p, ts) ==
    IF ~HasAll(p, {"cell_internal_impedance", "cells_in_parallel", "cells_in_series"})
    THEN Raised(p)
    ELSE IF p["cells_in_parallel"] = 0 THEN Raised(p)
    ELSE IF Has(p, "weather_temp_modifier") /\ p["weather_temp_modifier"] = 0
    THEN Raised(p)
    ELSE IF ~HasAll(p, {"drag_power", "rr_power", "battery_voltage_nominal"})
    THEN Raised(PutAll(p, [pack_resistance |-> PackResistance(p)]))
    ELSE IF p["battery_voltage_nominal"] = 0
    THEN Raised(PutAll(p, [pack_resistance |-> PackResistance(p)]))
    ELSE Returned(PutAll(p, [pack_resistance |-> PackResistance(p),
                             current_draw |-> CurrentDraw(p),
                             battery_power_loss |-> BatteryPowerLoss(p)]),
                  Energy(-BatteryPowerLoss(p), ts))

\* BatteryModel.update: delegates to its ESR loss model
BatteryModel_update(p, ts) == ESRBatteryLossModel_update(p, ts)

\* LVDrawModel.components
LVComponents ==
    <<"vcu", "controls_leader", "horn", "lighting", "pi_&_display", "pedals",
      "camera_hub", "battery_box", "mppt_a", "mppt_b", "mppt_c",
      "motor_controller", "telemetry_leader", "pump", "DC_DC_converter">>

\* mutant: the peak currents are used whatever the flag says
PeakSuffix_Always(p) == "_peak"

\* suffix: "_peak" if params.get("enable_peak_draw", 0) == 1
PeakSuffix(p) ==
    IF Has(p, "enable_peak_draw") /\ p["enable_peak_draw"] = 1 THEN "_peak" ELSE ""

\* params.get(component + suffix, params.get(component, Q_(0, "A")))
ComponentCurrent(p, c) ==
    IF Has(p, c \o PeakSuffix(p)) THEN p[c \o PeakSuffix(p)]
    ELSE IF Has(p, c) THEN p[c]
    ELSE 0

\* total_current: the sum over the components from index i on
RECURSIVE TotalCurrent(_, _)
TotalCurrent(p, i) ==
    IF i > Len(LVComponents) THEN 0
    ELSE ComponentCurrent(p, LVComponents[i]) + TotalCurrent(p, i + 1)

\* LVDrawModel.update
LVDrawModel_update(p, ts) ==
    IF ~Has(p, "lv_voltage") THEN Raised(p)
    ELSE Returned(Put(p, "lv_draw_power", p["lv_voltage"] * TotalCurrent(p, 1)),
                  Energy(0 - p["lv_voltage"] * TotalCurrent(p, 1), ts))

\* ---- MotorLossModel (models/motor_losses.py) ----
\* mp is the MotorParameters of the instance (self.params).  Currents are in
\* mA, powers in mW, efficiencies in per-mille, eta_C in percent.

\* I**2 * R, for a current in mA
SquareLaw(I, R) == (I * I * R) \div 1000

armature_loss(mp, I) == SquareLaw(I, mp.R_A)

commutation_loss(mp, I, N_rpm) ==
    IF mp.is_brushless THEN mp.k_SW * N_rpm * 1000 + SquareLaw(I, mp.R_B)
    ELSE SquareLaw(I, mp.R_B)

hysteresis_loss(mp, N_rpm) == mp.k_H * N_rpm * 1000

eddy_current_loss(mp, N_rpm) == mp.k_E * N_rpm * N_rpm * 1000

bearing_loss(mp, N_rpm) == (mp.k_B1 + mp.k_B2 * N_rpm) * N_rpm * 1000

air_drag_loss(mp, N_rpm) == mp.k_D * N_rpm * N_rpm * N_rpm * 1000

stray_power_loss(mp, N_rpm) ==
    (mp.k_1 * N_rpm + mp.k_2 * N_rpm * N_rpm + mp.k_3 * N_rpm * N_rpm * N_rpm) * 1000

\* P_stray of total_motor_loss
StrayTotal(mp, N_rpm, use_stray_model) ==
    IF use_stray_model /\ (mp.k_1 # 0 \/ mp.k_2 # 0 \/ mp.k_3 # 0)
    THEN stray_power_loss(mp, N_rpm)
    ELSE hysteresis_loss(mp, N_rpm) + eddy_current_loss(mp, N_rpm)
         + bearing_loss(mp, N_rpm) + air_drag_loss(mp, N_rpm)

\* losses['P_motor_total'] of total_motor_loss
total_motor_loss(mp, I, N_rpm, use_stray_model) ==
    armature_loss(mp, I) + commutation_loss(mp, I, N_rpm)
    + StrayTotal(mp, N_rpm, use_stray_model)

\* P_shaft = tau_S * N_rpm / 9.549
ShaftPower(tau_S, N_rpm) == (tau_S * N_rpm * 1000000) \div 9549

\* P_motor_input of motor_efficiency, for a current I
MotorInput(mp, I, tau_S, N_rpm, use_stray_model) ==
    ShaftPower(tau_S, N_rpm) + total_motor_loss(mp, I, N_rpm, use_stray_model)

\* a division by zero in motor_efficiency
MotorRaised == [ok |-> FALSE]

\* the brushless branch of motor_efficiency: the controller between the
\* battery and the motor
BrushlessEfficiency(mp, P_shaft, P_motor_input, eta_motor) ==
    IF mp.eta_C = 0 THEN MotorRaised
    ELSE IF (P_motor_input * 100) \div mp.eta_C = 0 THEN MotorRaised
    ELSE [ok |-> TRUE, P_shaft |-> P_shaft, P_motor_input |-> P_motor_input,
          P_battery_input |-> (P_motor_input * 100) \div mp.eta_C,
          eta_motor |-> eta_motor,
          eta_system |-> (P_shaft * 1000) \div ((P_motor_input * 100) \div mp.eta_C)]

\* motor_efficiency from  eta_motor = ... if P_motor_input > 0 else 0  on
EfficiencyOf(mp, P_shaft, P_motor_input, eta_motor) ==
    IF mp.is_brushless THEN BrushlessEfficiency(mp, P_shaft, P_motor_input, eta_motor)
    ELSE [ok |-> TRUE, P_shaft |-> P_shaft, P_motor_input |-> P_motor_input,
          P_battery_input |-> P_motor_input,
          eta_motor |-> eta_motor, eta_system |-> eta_motor]

\* MotorLossModel.motor_efficiency
motor_efficiency(mp, tau_S, N_rpm, use_stray_model) ==
    IF mp.k_S = 0 THEN MotorRaised
    ELSE EfficiencyOf(mp, ShaftPower(tau_S, N_rpm),
                      MotorInput(mp, (tau_S * 1000) \div mp.k_S, tau_S, N_rpm,
                                 use_stray_model),
                      IF MotorInput(mp, (tau_S * 1000) \div mp.k_S, tau_S, N_rpm,
                                    use_stray_model) > 0
                      THEN (ShaftPower(tau_S, N_rpm) * 1000)
                           \div MotorInput(mp, (tau_S * 1000) \div mp.k_S, tau_S, N_rpm,
                                           use_stray_model)
                      ELSE 0)

\* The EnergyModel interface: an implementation about which nothing is
\* known but the contract update(params, timestep) -> delta.  The stand-ins
\* "modelA", "modelB" (EnergyModel) and "batteryX" (BatteryModel subclass)
\* write one output field of their own and return the delta d chosen for
\* the call.
AbstractModels == {"modelA", "modelB"}

AbstractBatteries == {"batteryX"}

OutKey(m) ==
    CASE m = "modelA" -> "out_a"
      [] m = "modelB" -> "out_b"
      [] m = "batteryX" -> "out_x"

EnergyModel_update(m, p, d) == Returned(Put(p, OutKey(m), 1), d)

\* m.update(params, timestep), dispatched on the model's class
ModelUpdate(m, p, ts, d) ==
    CASE m = "SCPRollingResistanceModel" -> SCPRollingResistanceModel_update(p, ts)
      [] m = "SCPDragModel" -> SCPDragModel_update(p, ts)
      [] m = "BasicArrayModel" -> BasicArrayModel_update(p, ts)
      [] m = "IrradianceArrayModel" -> IrradianceArrayModel_update(p, ts)
      [] m = "SCPArrayModel" -> SCPArrayModel_update(p, ts)
      [] m = "SCPArrayModelWithIncidence" -> SCPArrayModelWithIncidence_update(p, ts)
      [] m = "SCPArrayModelLamination" -> SCPArrayModelLamination_update(p, ts)
      [] m = "BatteryModel" -> BatteryModel_update(p, ts)
      [] m = "LVDrawModel" -> LVDrawModel_update(p, ts)
      [] OTHER -> EnergyModel_update(m, p, d)

----------------------------------------------------------------------------
(* The engine: VehicleModel.                                               *)

\* One statement  params["total_energy"] += m.update(params, params["timestep"])
\* per model of ms, in order.  Python loads params["total_energy"], then
\* evaluates the call, then adds and stores.  st = [params, calls,
\* deltaSum, excursion, raised].
\* e lies outside [0, battery_max_energy]
OutOfRange(p, e) == e < 0 \/ (Has(p, "battery_max_energy") /\ e > p["battery_max_energy"])

\* (mutant) total_energy clamped after every single addition
Accumulate_ClampEach(st, m, loaded, r, last) ==
    IF ~r.ok
    THEN [st EXCEPT !.params = r.params, !.raised = TRUE, !.calls = Append(@, m)]
    ELSE [params |-> Put(r.params, "total_energy",
                         Max(Min(loaded + r.delta, r.params["battery_max_energy"]), 0)),
          calls |-> Append(st.calls, m),
          deltaSum |-> st.deltaSum + r.delta,
          excursion |-> (st.excursion
                         \/ (~last /\ OutOfRange(r.params, loaded + r.delta))),
          raised |-> FALSE]

\* The addition and store of one such statement, for the result r of the
\* call of model m; `last` tells that no further model call follows it.
Accumulate(st, m, loaded, r, last) ==
    IF ~r.ok
    THEN [st EXCEPT !.params = r.params, !.raised = TRUE, !.calls = Append(@, m)]
    ELSE [params |-> Put(r.params, "total_energy", loaded + r.delta),
          calls |-> Append(st.calls, m),
          deltaSum |-> st.deltaSum + r.delta,
          excursion |-> (st.excursion
                         \/ (~last /\ OutOfRange(r.params, loaded + r.delta))),
          raised |-> FALSE]

RECURSIVE RunModels(_, _, _, _)
RunModels(st, ms, ds, i) ==
    IF st.raised \/ i > Len(ms) THEN st
    ELSE IF ~HasAll(st.params, {"total_energy", "timestep"})
    THEN [st EXCEPT !.raised = TRUE]
    ELSE RunModels(Accumulate(st, ms[i], st.params["total_energy"],
                              ModelUpdate(ms[i], st.params, st.params["timestep"], ds[i]),
                              i = Len(ms)),
                   ms, ds, i + 1)

\* (mutant) the clamp without its lower bound
Clamped_NoFloor(e, battery_max_energy) == Min(e, battery_max_energy)

\* max(min(total_energy, battery_max_energy), 0 Wh)
Clamped(e, battery_max_energy) == Max(Min(e, battery_max_energy), 0)

\* the final statement of update()
Clamp(st) ==
    IF st.raised THEN st
    ELSE IF ~HasAll(st.params, {"total_energy", "battery_max_energy"})
    THEN [st EXCEPT !.raised = TRUE]
    ELSE [st EXCEPT !.params = Put(@, "total_energy",
                                   Clamped(@["total_energy"], @["battery_max_energy"])),
                    !.calls = Append(@, "clamp")]

\* (mutant) the battery model invoked before the registered models
VehicleModel_update_BatteryFirst(p, ms, bm, ds) ==
    Clamp(RunModels([params |-> p, calls |-> <<>>, deltaSum |-> 0,
                     excursion |-> FALSE, raised |-> FALSE],
                    <<bm>> \o ms, ds, 1))

\* (mutant) an update() that puts the store back when a model raises
VehicleModel_update_Rollback(p, ms, bm, ds) ==
    LET st == Clamp(RunModels([params |-> p, calls |-> <<>>, deltaSum |-> 0,
                               excursion |-> FALSE, raised |-> FALSE],
                              ms \o <<bm>>, ds, 1))
    IN  IF st.raised THEN [st EXCEPT !.params = p] ELSE st

\* VehicleModel.update: the registered models in order, the battery model
\* last, then the clamp.  ds gives the deltas of the abstract models.
VehicleModel_update(p, ms, bm, ds) ==
    Clamp(RunModels([params |-> p, calls |-> <<>>, deltaSum |-> 0,
                     excursion |-> FALSE, raised |-> FALSE],
                    ms \o <<bm>>, ds, 1))

\* (mutant) a reset that restores the initial keys and keeps the added ones
VehicleModel_reset_KeepsAdded(ip) == PutAll(params, ip)

\* VehicleModel.reset: self.params = copy.deepcopy(self.init_params)
VehicleModel_reset(ip) == DeepCopy(ip)

\* ---- bounds of the engine specification ----
MaxEnergy == 3      \* largest battery_max_energy of a parameter file
MaxDelta == 2       \* largest magnitude of a delta an abstract model returns
MaxModels == 2      \* add_model calls
EnergyCap == 5      \* update() is explored while |total_energy| <= EnergyCap

Deltas == {0 - MaxDelta, 0, MaxDelta}

\* the parameter files of the engine specification (timestep: one hour)
EngineYamls ==
    { [total_energy |-> e, battery_max_energy |-> MaxEnergy, timestep |-> SecondsPerHour]
      : e \in {MaxEnergy - 1} }

\* VehicleModel.__init__(init_params) and the state right after it
Constructed(yaml) ==
    /\ init_params = yaml
    /\ params = DeepCopy(yaml)
    /\ models = <<>>
    /\ battery_model = "BatteryModel"
    /\ baseline0 = yaml
    /\ calls = <<>> /\ e0 = 0 /\ deltaSum = 0 /\ excursion = FALSE
    /\ raised = FALSE /\ ret = 0
    /\ callerMutated = FALSE /\ addAfterSet = FALSE /\ resetDirty = FALSE

\* no --grid-search items
NoArgs == grid_args = << >> /\ warned = << >> /\ parsed = FALSE

\* nothing printed by generate_graphs
NoReport == reported = {}

\* SimulationGUI.__init__: no run yet, the button enabled, nothing clicked
NoGui ==
    /\ is_running = FALSE /\ run_button = "normal"
    /\ progress_label = "Status: Ready"
    /\ workers = << >> /\ clicks = 0

\* no weather model, nothing fetched
NoWeather ==
    /\ weather_model = "none" /\ weather_data = << >>
    /\ fetch_reply = "skipped"
    /\ fallbackLogged = FALSE /\ injected = EmptyStore

DriverOff ==
    /\ pc = "off" /\ mode = "none"
    /\ search_params = <<>> /\ configs = <<>> /\ cfgIdx = 0
    /\ total_steps = 0 /\ stepIdx = 0 /\ current_time = 0
    /\ rows = <<>> /\ logs = <<>> /\ startStores = <<>>
    /\ afterUpdate = <<>> /\ nUpdates = 0
    /\ NoWeather
    /\ NoArgs
    /\ NoReport
    /\ NoGui

Init ==
    /\ \E yaml \in EngineYamls : Constructed(yaml)
    /\ lastOp = "init"
    /\ DriverOff

NoObservation ==
    /\ calls' = <<>> /\ e0' = 0 /\ deltaSum' = 0 /\ excursion' = FALSE
    /\ raised' = FALSE /\ ret' = 0 /\ resetDirty' = FALSE

\* VehicleModel.add_model
AddModel(m) ==
    /\ pc = "off"
    /\ Len(models) < MaxModels
    /\ models' = Append(models, m)
    /\ addAfterSet' = (addAfterSet \/ battery_model # "BatteryModel")
    /\ lastOp' = "add_model"
    /\ NoObservation
    /\ UNCHANGED <<init_params, params, battery_model, baseline0,
                   callerMutated, driverVars, guiVars>>

\* VehicleModel.set_battery_model
SetBatteryModel(b) ==
    /\ pc = "off"
    /\ battery_model' = b
    /\ lastOp' = "set_battery_model"
    /\ NoObservation
    /\ UNCHANGED <<init_params, params, models, baseline0,
                   callerMutated, addAfterSet, driverVars, guiVars>>

\* the engine state and the observation after an update() that ended in st
Updated(st) ==
    /\ params' = st.params
    /\ calls' = st.calls
    /\ deltaSum' = st.deltaSum
    /\ excursion' = st.excursion
    /\ raised' = st.raised

\* VehicleModel.update, for the deltas ds of the abstract models
Update(ds) ==
    /\ pc = "off"
    /\ Has(params, "total_energy")
    /\ params["total_energy"] \in (0 - EnergyCap)..EnergyCap
    /\ Updated(VehicleModel_update(params, models, battery_model, ds))
    /\ e0' = params["total_energy"]
    /\ ret' = 0 /\ resetDirty' = FALSE
    /\ lastOp' = "update"
    /\ UNCHANGED <<init_params, models, battery_model, baseline0,
                   callerMutated, addAfterSet, driverVars, guiVars>>

\* VehicleModel.reset
Reset ==
    /\ pc = "off"
    /\ params' = VehicleModel_reset(init_params)
    /\ lastOp' = "reset"
    /\ calls' = <<>> /\ e0' = 0 /\ deltaSum' = 0 /\ excursion' = FALSE
    /\ raised' = FALSE /\ ret' = 0
    /\ resetDirty' = (/\ DOMAIN params # DOMAIN baseline0
                      /\ \E k \in DOMAIN baseline0 :
                             k \in DOMAIN params /\ params[k] # baseline0[k])
    /\ UNCHANGED <<init_params, models, battery_model, baseline0,
                   callerMutated, addAfterSet, driverVars, guiVars>>

\* m.params[k] = v: a direct overwrite of a store entry by the driver
Overwrite(k, v) ==
    /\ pc = "off"
    /\ params' = Put(params, k, v)
    /\ lastOp' = "overwrite"
    /\ NoObservation
    /\ UNCHANGED <<init_params, models, battery_model, baseline0,
                   callerMutated, addAfterSet, driverVars, guiVars>>

\* The code that built the engine keeps the mapping it passed in (gui.py
\* stores it as self.params) and changes it: an overwrite, a new key, a
\* removal.  self.init_params is that same object.
CallerMutate(k, v, remove) ==
    /\ pc = "off"
    /\ init_params' = IF remove THEN Remove(init_params, k) ELSE Put(init_params, k, v)
    /\ ~callerMutated
    /\ init_params' # init_params
    /\ callerMutated' = TRUE
    /\ lastOp' = "caller_mutate"
    /\ NoObservation
    /\ UNCHANGED <<params, models, battery_model, baseline0,
                   addAfterSet, driverVars, guiVars>>

OverwriteKeys == {"total_energy", "battery_max_energy"}

OverwriteValues(k) ==
    IF k = "total_energy" THEN {0 - 1, MaxEnergy + 1} ELSE {MaxEnergy - 1}

Next ==
    \/ \E m \in AbstractModels : AddModel(m)
    \/ \E b \in AbstractBatteries \cup {"BatteryModel"} : SetBatteryModel(b)
    \/ \E ds \in [1..(Len(models) + 1) -> Deltas] : Update(ds)
    \/ Reset
    \/ \E k \in OverwriteKeys : \E v \in OverwriteValues(k) : Overwrite(k, v)

Spec == Init /\ [][Next]_vars

\* the engine together with the code that built it
NextCaller ==
    \/ Next
    \/ \E k \in {"total_energy", "extra"} : \E remove \in BOOLEAN :
           CallerMutate(k, 1, remove)

SpecCaller == Init /\ [][NextCaller]_vars

\* ---- the engine with a model that fails ----

\* registered on a store without the fields it requires, SCPDragModel.update
\* raises KeyError
FailingModels == {"SCPDragModel"}

NextFail ==
    \/ \E m \in AbstractModels \cup FailingModels : AddModel(m)
    \/ \E b \in AbstractBatteries \cup {"BatteryModel"} : SetBatteryModel(b)
    \/ \E ds \in [1..(Len(models) + 1) -> Deltas] : Update(ds)
    \/ Reset

SpecFail == Init /\ [][NextFail]_vars

----------------------------------------------------------------------------
(* Direct calls of one Solar Array model on a store.                       *)

ArrayModels ==
    {"BasicArrayModel", "IrradianceArrayModel", "SCPArrayModelLamination",
     "SCPArrayModel", "SCPArrayModelWithIncidence"}

\* Latitudes (degrees) and times of day (seconds since local midnight) on
\* the 60-degree grid of CosMilli: 0:00, 4:00, ..., 20:00.  The instants
\* 6:00 and 18:00 are not on it: there math.cos yields 6.1e-17, not 0.
Latitudes == {0, 60}

TimesOfDay == {h * 4 * SecondsPerHour : h \in 0..5}

\* a parameter file with the fields the array models read
ArrayYaml(lat, t, ts, tae) ==
    [latitude_deg |-> lat, timestamp |-> t, timestep |-> ts,
     total_array_energy |-> tae,
     num_cells |-> 10, p_mpp |-> 4, cell_efficiency |-> 25,
     irradiance |-> 800, array_area |-> 4,
     n_cover |-> 150, t_cover |-> 3, alpha_cover |-> 0, t_eva |-> 1, alpha_eva |-> 0,
     ambient_temp |-> 25, noct |-> 45, temp_coeff |-> 4, t_ref |-> 25,
     total_energy |-> 0, battery_max_energy |-> MaxEnergy]

InitArray ==
    /\ \E lat \in Latitudes, t \in TimesOfDay, h \in 1..2, tae \in {0, 5} :
           Constructed(ArrayYaml(lat, t, h * SecondsPerHour, tae))
    /\ lastOp = "init"
    /\ pc = "model" /\ mode = "none"
    /\ search_params = <<>> /\ configs = <<>> /\ cfgIdx = 0
    /\ total_steps = 0 /\ stepIdx = 0 /\ current_time = 0
    /\ rows = <<>> /\ logs = <<>> /\ startStores = <<>>
    /\ afterUpdate = <<>> /\ nUpdates = 0
    /\ NoWeather
    /\ NoArgs
    /\ NoReport
    /\ NoGui

\* the store and the observation after a model call that ended in r
ModelCalled(r) ==
    /\ params' = r.params
    /\ raised' = ~r.ok
    /\ ret' = r.delta

\* model.update(params, params["timestep"]) on a freshly built store
ModelCall(m) ==
    /\ pc = "model"
    /\ lastOp = "init"
    /\ ModelCalled(ModelUpdate(m, params, params["timestep"], 0))
    /\ calls' = <<m>>
    /\ lastOp' = "model_call"
    /\ UNCHANGED <<init_params, models, battery_model, baseline0, e0, deltaSum,
                   excursion, callerMutated, addAfterSet, resetDirty, driverVars, guiVars>>

NextArray == \E m \in ArrayModels : ModelCall(m)

SpecArray == InitArray /\ [][NextArray]_vars

----------------------------------------------------------------------------
(* The driver: run_simulation, grid_search and the two branches of main.   *)
(* Times are seconds counted from local midnight of the day the default    *)
(* start falls on.                                                         *)

DefaultStartTs == 32400     \* datetime(2026, 7, 1, 9, 0, 0): 09:00

\* DEFAULT_LOG_PARAMS and one name that is in no store
LogParams == {"velocity", "total_energy", "array_power", "total_array_energy"}

\* m.params.get(name): << >> stands for None
Logged(p, name) == IF Has(p, name) THEN <<p[name]>> ELSE << >>

\* the row run_simulation appends for the instant t and the store p
Row(t, p) == [datetime |-> t, values |-> [name \in LogParams |-> Logged(p, name)]]

\* mutant: the quotient is rounded up
TotalSteps_RoundedUp(p) == (p["raceday_len"] + p["timestep"] - 1) \div p["timestep"]

\* int(raceday_len / timestep), for positive lengths
TotalSteps(p) == p["raceday_len"] \div p["timestep"]

\* m.params.get("start_ts", default)
StartTime(p) == IF Has(p, "start_ts") THEN p["start_ts"] ELSE DefaultStartTs

\* sec_since_midnight of current_time
SecSinceMidnight(t) == t % SecondsPerDay

\* the store update() runs on: the timestamp injected (weather disabled)
Injected(p, t) == Put(p, "timestamp", SecSinceMidnight(t))

\* len(np.arange(start, stop, step)): ceil((stop - start) / step), at least 0
ARangeLen(start, stop, step) ==
    IF step > 0 /\ stop > start THEN (stop - start + step - 1) \div step
    ELSE IF step < 0 /\ stop < start THEN (start - stop - step - 1) \div (0 - step)
    ELSE 0

\* mutant: the stop value is part of the range
ARange_StopInclusive(start, stop, step) ==
    [i \in 1..(ARangeLen(start, stop, step) + 1) |-> start + (i - 1) * step]

\* np.arange(start, stop, step) for a non-zero step
ARange(start, stop, step) ==
    [i \in 1..ARangeLen(start, stop, step) |-> start + (i - 1) * step]

\* the configurations of product(vals, *others) given those of product(*others)
Extend(k, vals, rest) ==
    [j \in 1..(Len(vals) * Len(rest)) |->
        Put(rest[((j - 1) % Len(rest)) + 1], k, vals[((j - 1) \div Len(rest)) + 1])]

\* search_configs: dict(zip(keys, values)) for values in product(*ranges)
RECURSIVE Product(_)
Product(entries) ==
    IF entries = << >> THEN << EmptyStore >>
    ELSE Extend(entries[1].name,
                ARange(entries[1].start, entries[1].stop, entries[1].step),
                Product(Tail(entries)))

\* mutant: the configuration's values are never written to the store
ApplyConfig_Skipped(p, config) == p

\* for k, v in config.items(): m.params[k] = v
ApplyConfig(p, config) == PutAll(p, config)

\* mutant: grid_search without its closing reset
GridReset_Missing(p, ip) == p

\* the store grid_search leaves for the next configuration: m.reset()
GridReset(p, ip) == VehicleModel_reset(ip)

\* the pipeline of the dashboards (gui.py, ui.py)
Pipeline == <<"SCPRollingResistanceModel", "SCPDragModel", "SCPArrayModel">>

NoDeltas == [i \in 1..(Len(Pipeline) + 1) |-> 0]

\* ---- the weather collaborator (modifiers in percent) ----

RefTemp == 25               \* ref_temp of get_temperature_modifier, in Celsius

\* the record get_weather_at_time returns when there is no data
DefaultWeather ==
    [temperature |-> RefTemp, cloud_cover |-> 0, wind_speed |-> 0,
     wind_direction |-> 0, precipitation |-> 0]

\* WeatherModel.get_weather_at_time: the record closest in time; the data
\* are hourly from midnight of the start day
GetWeatherAtTime(wd, t) ==
    IF wd = << >> THEN DefaultWeather
    ELSE wd[Min(Len(wd), ((t + SecondsPerHour \div 2) \div SecondsPerHour) + 1)]

\* WeatherModel.get_temperature_modifier: 1 - 0.005 per degree above 25
TemperatureModifier(temperature) == 100 - ((temperature - RefTemp) * 5) \div 10

\* WeatherModel.get_cloud_cover_modifier: 1 - 0.8 * cover / 100
CloudCoverModifier(cloud_cover) == 100 - (cloud_cover * 8) \div 10

\* relative_speed of get_wind_modifier, in mm/s, clamped at 0
RelativeSpeedMilli(wind_speed, wind_direction, heading, vehicle_speed) ==
    Max(0, vehicle_speed * 1000 + wind_speed * CosMilli((wind_direction - heading) % 360))

\* WeatherModel.get_wind_modifier: (relative_speed / vehicle_speed) ** 2
WindModifier(wind_speed, wind_direction, heading, vehicle_speed) ==
    IF vehicle_speed <= 0 THEN 100
    ELSE (RelativeSpeedMilli(wind_speed, wind_direction, heading, vehicle_speed)
          * RelativeSpeedMilli(wind_speed, wind_direction, heading, vehicle_speed))
         \div (vehicle_speed * vehicle_speed * 10000)

\* WeatherModel.get_rolling_resistance_modifier: 1 + 0.2 * min(p, 5) / 5
RollingResistanceModifier(precipitation) == 100 + (Min(precipitation, 5) * 20) \div 5

\* params.get(flag, 1) > 0
Enabled(p, flag) == ~Has(p, flag) \/ p[flag] > 0

Heading(p) == IF Has(p, "vehicle_heading") THEN p["vehicle_heading"] ELSE 0

\* the driver's writes up to and including the cloud modifier
TempCloudWrites(p, w) ==
    IF Enabled(p, "weather_cloud_modifier_enabled")
    THEN PutAll(p, [weather_temp_modifier |-> TemperatureModifier(w.temperature),
                    weather_cloud_modifier |-> CloudCoverModifier(w.cloud_cover)])
    ELSE PutAll(p, [weather_temp_modifier |-> TemperatureModifier(w.temperature)])

\* the wind modifier, when enabled (reads velocity)
WindWrites(p, w) ==
    IF Enabled(p, "weather_wind_modifier_enabled")
    THEN PutAll(p, [weather_wind_modifier |->
                        WindModifier(w.wind_speed, w.wind_direction, Heading(p),
                                     p["velocity"])])
    ELSE p

\* the road modifier and the raw weather fields stored for logging
RoadAndRawWrites(p, w) ==
    PutAll(p, [weather_road_modifier |-> RollingResistanceModifier(w.precipitation),
               weather_temperature |-> w.temperature,
               weather_cloud_cover |-> w.cloud_cover,
               weather_wind_speed |-> w.wind_speed,
               weather_wind_direction |-> w.wind_direction])

\* the "Apply weather modifiers" block of the loop, for the record w
WeatherInjected(p, wm, w) ==
    IF wm = "none" THEN Returned(p, 0)
    ELSE IF Enabled(p, "weather_wind_modifier_enabled") /\ ~Has(p, "velocity")
    THEN Raised(TempCloudWrites(p, w))
    ELSE Returned(RoadAndRawWrites(WindWrites(TempCloudWrites(p, w), w), w), 0)

\* the result of update() on the store the driver prepared in w
UpdateAfter(w, ms, bm) ==
    IF ~w.ok
    THEN [params |-> w.params, calls |-> << >>, deltaSum |-> 0,
          excursion |-> FALSE, raised |-> TRUE]
    ELSE VehicleModel_update(w.params, ms, bm, NoDeltas)

\* mutant: the weather block runs after update()
Step_WeatherLate(p, t, ms, bm, wm, wd) ==
    [VehicleModel_update(Injected(p, t), ms, bm, NoDeltas) EXCEPT
        !.params = WeatherInjected(@, wm, GetWeatherAtTime(wd, t)).params]

\* one iteration of the loop up to and including m.update(), at time t
Step(p, t, ms, bm, wm, wd) ==
    UpdateAfter(WeatherInjected(Injected(p, t), wm, GetWeatherAtTime(wd, t)), ms, bm)

\* the loop body without a weather model
LoopBody(p, t, ms, bm) == Step(p, t, ms, bm, "none", << >>)

\* the rows of run_simulation's loop: n iterations from the store p at time t
RECURSIVE SimRows(_, _, _, _, _, _)
SimRowsAfter(st, t, n, acc, ms, bm) ==
    IF st.raised THEN acc
    ELSE SimRows(st.params, t + st.params["timestep"], n - 1,
                 Append(acc, Row(t, st.params)), ms, bm)

SimRows(p, t, n, acc, ms, bm) ==
    IF n = 0 THEN acc ELSE SimRowsAfter(LoopBody(p, t, ms, bm), t, n, acc, ms, bm)

\* the frame run_simulation(m, log_params) returns for an engine with store p
RunSimulation(p, ms, bm) == SimRows(p, StartTime(p), TotalSteps(p), << >>, ms, bm)

\* ---- inputs ----
MaxStart == 2           \* largest start of a swept velocity range
MaxStop == 4            \* largest stop of a swept velocity range
MaxStep == 2            \* largest step of a swept velocity range
MaxRaceHours == 3       \* largest raceday_len, in hours
MaxTimestepHours == 2   \* largest timestep, in hours

DriverYaml(len, ts) ==
    [raceday_len |-> len, timestep |-> ts,
     total_energy |-> 500, battery_max_energy |-> 1000, velocity |-> 1,
     mu_rr |-> 1, mu2_rr |-> 0, f_wheel_weight |-> 1, r_wheel_weight |-> 1,
     grav_accel |-> 1, air_density |-> 2, drag_coeff |-> 2, frontal_area |-> 1,
     num_cells |-> 10, p_mpp |-> 4, cell_efficiency |-> 25,
     cell_internal_impedance |-> 2, cells_in_parallel |-> 2, cells_in_series |-> 1,
     battery_voltage_nominal |-> 1]

DriverYamls ==
    LET base == { DriverYaml(l * SecondsPerHour, t * SecondsPerHour) :
                      l \in 1..MaxRaceHours, t \in 1..MaxTimestepHours }
    IN  base \cup { Put(y, "start_ts", 22 * SecondsPerHour) : y \in base }

VelocityEntries ==
    { [name |-> "velocity", start |-> a, stop |-> b, step |-> c] :
          a \in 1..MaxStart, b \in 0..MaxStop, c \in (0 - 1)..MaxStep }

DragEntries ==
    { [name |-> "drag_coeff", start |-> 2, stop |-> 6, step |-> 2],
      [name |-> "drag_coeff", start |-> 3, stop |-> 4, step |-> 1] }

\* the search_params main builds from --grid-search (every item malformed: none)
SearchParams ==
    {<< >>} \cup { <<v>> : v \in VelocityEntries }
            \cup { <<v, d>> : v \in VelocityEntries, d \in DragEntries }
            \cup { <<d, v>> : v \in VelocityEntries, d \in DragEntries }

MaxTempSteps == 2       \* weather temperatures: 25 C +- 20 C * (0..MaxTempSteps)
MaxWind == 2            \* largest wind speed of a weather record

\* an hourly record of the weather service
WeatherRecord(k, w) ==
    [temperature |-> RefTemp + 20 * k, cloud_cover |-> 100 - 100 \div (w + 1),
     wind_speed |-> w, wind_direction |-> 180 * (w % 2), precipitation |-> 5 * w]

WeatherRecords ==
    { WeatherRecord(k, w) : k \in (0 - MaxTempSteps)..MaxTempSteps, w \in 0..MaxWind }

\* the replies of the weather service: no rows, one row, or a row followed
\* by a clear hour
WeatherDatas ==
    {<< >>} \cup { <<r>> : r \in WeatherRecords }
            \cup { <<r, DefaultWeather>> : r \in WeatherRecords }

\* parameter files that enable weather data
WeatherYamls ==
    LET base == { PutAll(DriverYaml(l * SecondsPerHour, SecondsPerHour),
                         [use_weather_data |-> 1, start_ts |-> s,
                          cell_internal_impedance |-> 18]) :
                      l \in 1..MaxRaceHours, s \in {0, DefaultStartTs} }
        located == { PutAll(y, [latitude_deg |-> 60, longitude_deg |-> 0]) : y \in base }
    IN  base \cup located
             \cup { Put(y, "weather_cloud_modifier_enabled", 0) : y \in located }
             \cup { Put(y, "weather_wind_modifier_enabled", 0) : y \in located }

InitWeather ==
    /\ \E yaml \in WeatherYamls : Constructed(yaml)
    /\ lastOp = "init"
    /\ pc = "setup"
    /\ mode = "direct" /\ search_params = << >>
    /\ configs = << >> /\ cfgIdx = 0
    /\ total_steps = 0 /\ stepIdx = 0 /\ current_time = 0
    /\ rows = << >> /\ logs = << >> /\ startStores = << >>
    /\ afterUpdate = << >> /\ nUpdates = 0
    /\ NoWeather
    /\ NoArgs
    /\ NoReport
    /\ NoGui

InitDriver ==
    /\ \E yaml \in DriverYamls : Constructed(yaml)
    /\ lastOp = "init"
    /\ pc = "setup"
    /\ \/ mode = "direct" /\ search_params = << >>
       \/ mode = "grid" /\ search_params \in SearchParams
    /\ configs = << >> /\ cfgIdx = 0
    /\ total_steps = 0 /\ stepIdx = 0 /\ current_time = 0
    /\ rows = << >> /\ logs = << >> /\ startStores = << >>
    /\ afterUpdate = << >> /\ nUpdates = 0
    /\ NoWeather
    /\ NoArgs
    /\ NoReport
    /\ NoGui

\* the driver registers its models on the engine (gui.py; ui.py leaves the
\* battery model at its default, which is the same class)
MainSetup ==
    /\ pc = "setup"
    /\ models' = Pipeline
    /\ battery_model' = "BatteryModel"
    /\ pc' = IF mode = "args" THEN "parse" ELSE "main"
    /\ lastOp' = "setup"
    /\ UNCHANGED <<init_params, params, baseline0, calls, e0, deltaSum, excursion,
                   raised, ret, callerMutated, addAfterSet, resetDirty,
                   mode, search_params, configs, cfgIdx, total_steps, stepIdx,
                   current_time, rows, logs, startStores, afterUpdate, nUpdates,
                   weatherVars, argVars, reported, guiVars>>

\* use_weather_data > 0
UseWeather(p) == Has(p, "use_weather_data") /\ p["use_weather_data"] > 0

NotFetched == [model |-> "none", data |-> << >>, logged |-> FALSE, reply |-> "skipped"]

\* mutant: after a failed fetch the weather model is kept
FetchFailed_KeepsModel ==
    [model |-> "loaded", data |-> << >>, logged |-> TRUE, reply |-> "error"]

\* the except branch: a warning is printed and weather_model is None again
FetchFailed == [model |-> "none", data |-> << >>, logged |-> TRUE, reply |-> "error"]

Fetched(wd) == [model |-> "loaded", data |-> wd, logged |-> FALSE, reply |-> "data"]

\* what the weather block of run_simulation can end in, for the replies
\* (hourly data) in datas: without coordinates in the store it fails
FetchOutcomes(p, datas) ==
    IF ~UseWeather(p) THEN {NotFetched}
    ELSE IF ~HasAll(p, {"latitude_deg", "longitude_deg"}) THEN {FetchFailed}
    ELSE {FetchFailed} \cup { Fetched(wd) : wd \in datas }

\* run_simulation up to its loop, on the store p, the fetch ending in o
RunStarted(p, o) ==
    /\ weather_model' = o.model
    /\ weather_data' = o.data
    /\ fetch_reply' = o.reply
    /\ fallbackLogged' = o.logged
    /\ injected' = EmptyStore
    /\ params' = p
    /\ total_steps' = TotalSteps(p)
    /\ current_time' = StartTime(p)
    /\ stepIdx' = 0
    /\ rows' = << >>
    /\ afterUpdate' = << >>
    /\ nUpdates' = 0
    /\ startStores' = Append(startStores, p)
    /\ pc' = "loop"

\* main's else branch: run_simulation(m, capture_params)
MainDirect ==
    /\ pc = "main" /\ mode = "direct"
    /\ \E o \in FetchOutcomes(params, WeatherDatas) : RunStarted(params, o)
    /\ lastOp' = "run_start"
    /\ UNCHANGED <<init_params, models, battery_model, obsVarsButLastOp,
                   mode, search_params, configs, cfgIdx, logs, argVars, reported, guiVars>>

\* grid_search: the ranges and search_configs
GridStart ==
    /\ pc = "main" /\ mode = "grid"
    /\ IF \E i \in 1..Len(search_params) : search_params[i].step = 0
       THEN pc' = "crashed" /\ configs' = << >> /\ cfgIdx' = 0
       ELSE /\ configs' = Product(search_params)
            /\ cfgIdx' = 1
            /\ pc' = IF Len(Product(search_params)) = 0 THEN "done" ELSE "config"
    /\ lastOp' = "grid_search"
    /\ UNCHANGED <<engineVars, obsVarsButLastOp, mode, search_params, total_steps,
                   stepIdx, current_time, rows, logs, startStores, afterUpdate,
                   nUpdates, weatherVars, argVars, reported, guiVars>>

\* grid_search: one configuration is written to the store and its run begins
GridConfig ==
    /\ pc = "config"
    /\ \E o \in FetchOutcomes(ApplyConfig(params, configs[cfgIdx]), WeatherDatas) :
           RunStarted(ApplyConfig(params, configs[cfgIdx]), o)
    /\ lastOp' = "run_start"
    /\ UNCHANGED <<init_params, models, battery_model, obsVarsButLastOp,
                   mode, search_params, configs, cfgIdx, logs, argVars, reported, guiVars>>

\* one iteration of run_simulation's loop that ended in st, begun at time t
Stepped(st, t) ==
    /\ Updated(st)
    /\ nUpdates' = nUpdates + 1
    /\ IF st.raised
       THEN /\ pc' = "crashed"
            /\ UNCHANGED <<rows, afterUpdate, current_time, stepIdx>>
       ELSE /\ pc' = "loop"
            /\ rows' = Append(rows, Row(t, st.params))
            /\ afterUpdate' = Append(afterUpdate, st.params)
            /\ current_time' = t + st.params["timestep"]
            /\ stepIdx' = stepIdx + 1

\* run_simulation: one iteration of the timestep loop
SimStep ==
    /\ pc = "loop"
    /\ stepIdx < total_steps
    /\ Stepped(Step(params, current_time, models, battery_model,
                     weather_model, weather_data), current_time)
    /\ injected' = WeatherInjected(Injected(params, current_time), weather_model,
                                   GetWeatherAtTime(weather_data, current_time)).params
    /\ e0' = params["total_energy"]
    /\ lastOp' = "step"
    /\ UNCHANGED <<init_params, models, battery_model, baseline0, ret,
                   callerMutated, addAfterSet, resetDirty,
                   mode, search_params, configs, cfgIdx, total_steps, logs,
                   startStores, weather_model, weather_data, fetch_reply,
                   fallbackLogged, argVars, reported, guiVars>>

\* df.columns: the keys of the row dicts
Columns(rs) == IF rs = << >> THEN {} ELSE {"date", "time", "datetime"} \cup LogParams

\* missing_params of generate_graphs: the names that are no column of df
MissingParams(graph_params, rs) == { n \in graph_params : n \notin Columns(rs) }

\* run_simulation returns its frame; the caller writes it out and, in
\* grid_search, resets the engine and moves on.  Dropping the datetime
\* column of a frame without rows raises.
SimReturn ==
    /\ pc = "loop"
    /\ stepIdx = total_steps
    /\ logs' = Append(logs, rows)
    /\ lastOp' = "run_simulation"
    /\ reported' = IF rows = << >> THEN reported ELSE MissingParams(LogParams, rows)
    /\ IF rows = << >>
       THEN pc' = "crashed" /\ UNCHANGED <<params, cfgIdx>>
       ELSE IF mode = "direct"
       THEN pc' = "done" /\ UNCHANGED <<params, cfgIdx>>
       ELSE /\ params' = GridReset(params, init_params)
            /\ cfgIdx' = cfgIdx + 1
            /\ pc' = IF cfgIdx = Len(configs) THEN "done" ELSE "config"
    /\ UNCHANGED <<init_params, models, battery_model, obsVarsButLastOp,
                   mode, search_params, configs, total_steps, stepIdx,
                   current_time, rows, startStores, afterUpdate, nUpdates,
                   weatherVars, argVars, guiVars>>

NextDriver ==
    \/ MainSetup
    \/ MainDirect
    \/ GridStart
    \/ GridConfig
    \/ SimStep
    \/ SimReturn

SpecDriver == InitDriver /\ [][NextDriver]_vars

\* ---- main: the items of --grid-search ----
\* An item "name:a:b:c:unit" is [name, args]: args are the fields between
\* the name and the unit, each [num, val]: num says whether float() accepts
\* the field, val is its value.

Num(v) == [num |-> TRUE, val |-> v]

NotNum == [num |-> FALSE, val |-> 0]

\* item.split(":") yields five fields and float() accepts the middle three
WellFormed(item) ==
    /\ Len(item.args) = 3
    /\ \A i \in 1..3 : item.args[i].num

\* (float(start), float(stop), float(step), unit) under the item's name
EntryOf(item) ==
    [name |-> item.name, start |-> item.args[1].val, stop |-> item.args[2].val,
     step |-> item.args[3].val]

\* search_params[name] = entry: a dict keeps the first position of a name
DictPut(sp, e) ==
    IF \E i \in 1..Len(sp) : sp[i].name = e.name
    THEN [i \in 1..Len(sp) |-> IF sp[i].name = e.name THEN e ELSE sp[i]]
    ELSE Append(sp, e)

\* mutant: the first malformed item ends the loop
RECURSIVE ParsedItems_StopAtBad(_, _)
ParsedItems_StopAtBad(items, sp) ==
    IF items = << >> \/ ~WellFormed(Head(items)) THEN sp
    ELSE ParsedItems_StopAtBad(Tail(items), DictPut(sp, EntryOf(Head(items))))

\* the loop over args.grid_search: search_params after the items
RECURSIVE ParsedItems(_, _)
ParsedItems(items, sp) ==
    IF items = << >> THEN sp
    ELSE ParsedItems(Tail(items), IF WellFormed(Head(items))
                                  THEN DictPut(sp, EntryOf(Head(items)))
                                  ELSE sp)

\* the items that raised ValueError, each answered by a warning
SkippedItems(items) == SelectSeq(items, LAMBDA it : ~WellFormed(it))

\* main: args.grid_search is parsed and grid_search is called
MainParse ==
    /\ pc = "parse"
    /\ search_params' = ParsedItems(grid_args, << >>)
    /\ warned' = SkippedItems(grid_args)
    /\ parsed' = TRUE
    /\ mode' = "grid"
    /\ pc' = "main"
    /\ lastOp' = "parse"
    /\ UNCHANGED <<engineVars, obsVarsButLastOp, grid_args, configs, cfgIdx,
                   total_steps, stepIdx, current_time, rows, logs, startStores,
                   afterUpdate, nUpdates, weatherVars, reported, guiVars>>

MaxArgs == 3            \* items given to --grid-search

\* the items: per parameter some well-formed, one with a field missing and
\* one with a non-numeric field
ArgItems ==
    { [name |-> "velocity", args |-> <<Num(1), Num(3), Num(1)>>],
      [name |-> "velocity", args |-> <<Num(2), Num(0), Num(0 - 1)>>],
      [name |-> "velocity", args |-> <<Num(2), Num(4)>>],
      [name |-> "velocity", args |-> <<Num(2), Num(4), NotNum>>],
      [name |-> "drag_coeff", args |-> <<Num(2), Num(6), Num(2)>>],
      [name |-> "drag_coeff", args |-> <<NotNum, Num(6), Num(2)>>],
      [name |-> "frontal_area", args |-> <<Num(1), Num(3), Num(1)>>],
      [name |-> "frontal_area", args |-> <<Num(3), Num(5), Num(1), Num(1)>>] }

\* lists of at most MaxArgs items with pairwise different names
ArgLists ==
    { l \in UNION { [1..n -> ArgItems] : n \in 0..MaxArgs } :
          \A i, j \in 1..Len(l) : l[i].name = l[j].name => i = j }

InitArgs ==
    /\ \E yaml \in { DriverYaml(l * SecondsPerHour, SecondsPerHour) : l \in 1..2 } :
           Constructed(yaml)
    /\ lastOp = "init"
    /\ pc = "setup"
    /\ mode = "args" /\ search_params = << >>
    /\ configs = << >> /\ cfgIdx = 0
    /\ total_steps = 0 /\ stepIdx = 0 /\ current_time = 0
    /\ rows = << >> /\ logs = << >> /\ startStores = << >>
    /\ afterUpdate = << >> /\ nUpdates = 0
    /\ NoWeather
    /\ grid_args \in ArgLists /\ warned = << >> /\ parsed = FALSE
    /\ NoReport
    /\ NoGui

NextArgs ==
    \/ MainSetup
    \/ MainParse
    \/ GridStart
    \/ GridConfig
    \/ SimStep
    \/ SimReturn

SpecArgs == InitArgs /\ [][NextArgs]_vars

\* ---- main: the registration of the pipeline ----

\* the classes main instantiates without arguments, in order, for add_model
MainPipeline ==
    <<"SCPRollingResistanceModel", "SCPDragModel", "SCPArrayModel", "MotorLossModel">>

\* cls() succeeds: models.motor_losses.MotorLossModel.__init__ has a
\* required parameter, the other classes have none
Constructible(cls) == cls # "MotorLossModel"

\* m.models when main's add_model calls have run up to the first
\* constructor that raises
RECURSIVE Registered(_, _)
Registered(classes, ms) ==
    IF classes = << >> \/ ~Constructible(Head(classes)) THEN ms
    ELSE Registered(Tail(classes), Append(ms, Head(classes)))

\* main: VehicleModel(...), the add_model calls and set_battery_model
MainRegister ==
    /\ pc = "start"
    /\ models' = Registered(MainPipeline, << >>)
    /\ battery_model' = "BatteryModel"
    /\ pc' = IF Registered(MainPipeline, << >>) = MainPipeline
             THEN (IF mode = "args" THEN "parse" ELSE "main")
             ELSE "crashed"
    /\ lastOp' = "register"
    /\ UNCHANGED <<init_params, params, baseline0, calls, e0, deltaSum, excursion,
                   raised, ret, callerMutated, addAfterSet, resetDirty,
                   mode, search_params, configs, cfgIdx, total_steps, stepIdx,
                   current_time, rows, logs, startStores, afterUpdate, nUpdates,
                   weatherVars, argVars, reported, guiVars>>

\* main started from the command line, with or without --grid-search
InitMain ==
    /\ \E yaml \in DriverYamls : Constructed(yaml)
    /\ lastOp = "init"
    /\ pc = "start"
    /\ search_params = << >>
    /\ configs = << >> /\ cfgIdx = 0
    /\ total_steps = 0 /\ stepIdx = 0 /\ current_time = 0
    /\ rows = << >> /\ logs = << >> /\ startStores = << >>
    /\ afterUpdate = << >> /\ nUpdates = 0
    /\ NoWeather
    /\ NoReport
    /\ NoGui
    /\ warned = << >> /\ parsed = FALSE
    /\ \/ mode = "direct" /\ grid_args = << >>
       \/ mode = "args" /\ grid_args \in ArgLists

NextMain == MainRegister

SpecMain == InitMain /\ [][NextMain]_vars

NextWeather ==
    \/ MainSetup
    \/ MainDirect
    \/ SimStep
    \/ SimReturn

SpecWeather == InitWeather /\ [][NextWeather]_vars

----------------------------------------------------------------------------
(* Direct calls of the rolling-resistance and the battery loss model.      *)

\* a store on which one model is called once
ModelBench(yaml) ==
    /\ Constructed(yaml)
    /\ lastOp = "init"
    /\ pc = "model" /\ mode = "none"
    /\ search_params = <<>> /\ configs = <<>> /\ cfgIdx = 0
    /\ total_steps = 0 /\ stepIdx = 0 /\ current_time = 0
    /\ rows = <<>> /\ logs = <<>> /\ startStores = <<>>
    /\ afterUpdate = <<>> /\ nUpdates = 0
    /\ NoWeather
    /\ NoArgs
    /\ NoReport
    /\ NoGui

MaxVelocity == 2        \* largest velocity of a direct model call
MaxWeight == 2          \* largest wheel weight
MaxMu == 1              \* largest rolling coefficient

RRYamls ==
    { [velocity |-> v, mu_rr |-> mu, mu2_rr |-> mu2, f_wheel_weight |-> fw,
       r_wheel_weight |-> rw, grav_accel |-> g, timestep |-> h * SecondsPerHour,
       total_energy |-> 0, battery_max_energy |-> MaxEnergy] :
          v \in 0..MaxVelocity, mu \in 0..MaxMu, mu2 \in 0..MaxMu,
          fw \in 0..MaxWeight, rw \in 0..MaxWeight, g \in {0, 10}, h \in 1..2 }

InitRR == \E yaml \in RRYamls : ModelBench(yaml)

NextRR == ModelCall("SCPRollingResistanceModel")

SpecRR == InitRR /\ [][NextRR]_vars

\* the loads the rolling-resistance and drag models leave in the store, the
\* pack, and the temperature modifier of a weather temperature (or none)
BatteryYamls ==
    LET base == { [rr_power |-> 0 - rr, drag_power |-> 0 - dr,
                   cell_internal_impedance |-> 18, cells_in_parallel |-> par,
                   cells_in_series |-> ser, battery_voltage_nominal |-> volt,
                   timestep |-> SecondsPerHour,
                   total_energy |-> 0, battery_max_energy |-> MaxEnergy] :
                      rr \in 0..MaxWeight, dr \in 0..MaxVelocity, par \in {2, 3},
                      ser \in {0, 1, 2}, volt \in {1, 5} }
    IN  base \cup { Put(y, "weather_temp_modifier", TemperatureModifier(r.temperature)) :
                        y \in base, r \in WeatherRecords }

InitBattery == \E yaml \in BatteryYamls : ModelBench(yaml)

NextBattery == ModelCall("BatteryModel")

SpecBattery == InitBattery /\ [][NextBattery]_vars

\* ---- direct calls of the drag model ----

\* the values get_wind_modifier returns (percent) for the winds of the
\* grid and the vehicle speeds of the bench, a vehicle at rest included
WindModifiers ==
    { WindModifier(ws, wdir * 60, 0, v) :
          ws \in 0..MaxWind, wdir \in 0..5, v \in 0..MaxVelocity }

\* stores with non-negative velocity, drag coefficient, air density and
\* frontal area, with or without an injected weather_wind_modifier
DragYamls ==
    LET base == { [velocity |-> v, drag_coeff |-> dc, air_density |-> rho,
                   frontal_area |-> a, timestep |-> h * SecondsPerHour,
                   total_energy |-> 0, battery_max_energy |-> MaxEnergy] :
                      v \in 0..MaxVelocity, dc \in {0, 4}, rho \in {0, 2},
                      a \in {0, 1}, h \in 1..2 }
    IN  base \cup { Put(y, "weather_wind_modifier", w) : y \in base, w \in WindModifiers }

InitDrag == \E yaml \in DragYamls : ModelBench(yaml)

NextDrag == ModelCall("SCPDragModel")

SpecDrag == InitDrag /\ [][NextDrag]_vars

\* ---- direct calls of MotorLossModel.motor_efficiency ----

MaxTorque == 2          \* largest magnitude of the shaft torque
MaxRpm == 2             \* largest motor speed

\* the MotorParameters of the instance: brushed or brushless, with or
\* without each loss term
MotorConfigs ==
    [k_S : {0, 2}, R_A : {0, 1}, R_B : {0, 1}, k_H : {0, 1}, k_E : {0},
     k_B1 : {0, 1}, k_B2 : {0}, k_D : {0}, k_SW : {0, 1},
     k_1 : {0, 1}, k_2 : {0}, k_3 : {0},
     is_brushless : BOOLEAN, eta_C : {0, 95}]

InitMotor == \E mp \in MotorConfigs : ModelBench(mp)

\* MotorLossModel(params).motor_efficiency(tau_S, N_rpm, use_stray_model)
MotorEfficiencyCall(tau_S, N_rpm, use_stray_model) ==
    /\ pc = "model"
    /\ lastOp = "init"
    /\ calls' = <<[tau_S |-> tau_S, N_rpm |-> N_rpm,
                   use_stray_model |-> use_stray_model]>>
    /\ ret' = motor_efficiency(params, tau_S, N_rpm, use_stray_model)
    /\ raised' = ~motor_efficiency(params, tau_S, N_rpm, use_stray_model).ok
    /\ lastOp' = "motor_efficiency"
    /\ UNCHANGED <<init_params, params, models, battery_model, baseline0, e0, deltaSum,
                   excursion, callerMutated, addAfterSet, resetDirty, driverVars, guiVars>>

NextMotor ==
    \E tau_S \in (0 - MaxTorque)..MaxTorque, N_rpm \in 0..MaxRpm,
       use_stray_model \in BOOLEAN :
        MotorEfficiencyCall(tau_S, N_rpm, use_stray_model)

SpecMotor == InitMotor /\ [][NextMotor]_vars

\* ---- direct calls of the low-voltage draw model ----

\* the components whose currents the parameter files below may hold
SomeComponents == {"vcu", "horn", "pump"}

\* stores with or without lv_voltage, enable_peak_draw, the currents of
\* three components and a peak current of one
LVYamls ==
    LET base == [timestep |-> SecondsPerHour, total_energy |-> 0,
                 battery_max_energy |-> MaxEnergy]
        currents == { [c \in cs |-> 1] : cs \in SUBSET SomeComponents }
        volts == { EmptyStore, [lv_voltage |-> 12] }
        peaks == { EmptyStore, [vcu_peak |-> 3] }
        modes == { EmptyStore, [enable_peak_draw |-> 0], [enable_peak_draw |-> 1],
                   [enable_peak_draw |-> 2] }
    IN  { PutAll(PutAll(PutAll(PutAll(base, c), v), k), md) :
              c \in currents, v \in volts, k \in peaks, md \in modes }

InitLV == \E yaml \in LVYamls : ModelBench(yaml)

NextLV == ModelCall("LVDrawModel")

SpecLV == InitLV /\ [][NextLV]_vars

----------------------------------------------------------------------------
(* The desktop GUI: the Run button and the worker thread (gui.py).         *)

MaxRuns == 3            \* worker threads started in one session
MaxClicks == 2          \* Run clicks waiting in the event queue at once

\* the widget state of SimulationGUI the handlers read and write
GuiState == [is_running |-> is_running, run_button |-> run_button,
             progress_label |-> progress_label, workers |-> workers]

\* (mutant) a click handler that leaves the Run button enabled
SimulationGUI_run_simulation_NoDisable(g) ==
    IF g.is_running THEN g
    ELSE [g EXCEPT !.progress_label = "Status: Running...",
                   !.workers = Append(@, "started")]

\* SimulationGUI._run_simulation, the command of the Run button: refuses
\* when is_running, else disables the button and starts a worker thread
SimulationGUI_run_simulation(g) ==
    IF g.is_running THEN g
    ELSE [g EXCEPT !.run_button = "disabled",
                   !.progress_label = "Status: Running...",
                   !.workers = Append(@, "started")]

\* the texts _simulation_worker leaves in the progress label
WorkerOutcomes ==
    {"Status: Complete", "Status: Complete (with warnings)",
     "Status: No valid data", "Status: Error"}

\* the positions at which a worker thread has not left its finally block
Active == {"started", "running", "finishing", "clearing"}

InitGui ==
    /\ \E yaml \in EngineYamls : Constructed(yaml)
    /\ lastOp = "init"
    /\ pc = "gui" /\ mode = "none"
    /\ search_params = <<>> /\ configs = <<>> /\ cfgIdx = 0
    /\ total_steps = 0 /\ stepIdx = 0 /\ current_time = 0
    /\ rows = <<>> /\ logs = <<>> /\ startStores = <<>>
    /\ afterUpdate = <<>> /\ nUpdates = 0
    /\ NoWeather
    /\ NoArgs
    /\ NoReport
    /\ NoGui

\* the user clicks Run: Tk queues the event
UserClick ==
    /\ pc = "gui"
    /\ clicks < MaxClicks
    /\ clicks' = clicks + 1
    /\ UNCHANGED <<engineVars, obsVars, driverVars,
                   is_running, run_button, progress_label, workers>>

\* the main loop handles one queued click: a disabled button ignores it,
\* an enabled one invokes its command, which runs to its end on the main
\* thread
Dispatch ==
    /\ pc = "gui"
    /\ clicks > 0
    /\ run_button = "normal" => Len(workers) < MaxRuns
    /\ clicks' = clicks - 1
    /\ IF run_button = "disabled"
       THEN UNCHANGED <<is_running, run_button, progress_label, workers>>
       ELSE /\ is_running' = SimulationGUI_run_simulation(GuiState).is_running
            /\ run_button' = SimulationGUI_run_simulation(GuiState).run_button
            /\ progress_label' = SimulationGUI_run_simulation(GuiState).progress_label
            /\ workers' = SimulationGUI_run_simulation(GuiState).workers
    /\ UNCHANGED <<engineVars, obsVars, driverVars>>

\* _simulation_worker: self.is_running = True, the first statement of try
WorkerBegin(i) ==
    /\ pc = "gui"
    /\ workers[i] = "started"
    /\ is_running' = TRUE
    /\ workers' = [workers EXCEPT ![i] = "running"]
    /\ UNCHANGED <<engineVars, obsVars, driverVars, run_button, progress_label, clicks>>

\* _simulation_worker: the simulation and the graphs, or the except branch
WorkerBody(i, outcome) ==
    /\ pc = "gui"
    /\ workers[i] = "running"
    /\ progress_label' = outcome
    /\ workers' = [workers EXCEPT ![i] = "finishing"]
    /\ UNCHANGED <<engineVars, obsVars, driverVars, is_running, run_button, clicks>>

\* finally: self.is_running = False
WorkerClear(i) ==
    /\ pc = "gui"
    /\ workers[i] = "finishing"
    /\ is_running' = FALSE
    /\ workers' = [workers EXCEPT ![i] = "clearing"]
    /\ UNCHANGED <<engineVars, obsVars, driverVars, run_button, progress_label, clicks>>

\* finally: self.run_button.config(state="normal"); the thread ends
WorkerEnable(i) ==
    /\ pc = "gui"
    /\ workers[i] = "clearing"
    /\ run_button' = "normal"
    /\ workers' = [workers EXCEPT ![i] = "done"]
    /\ UNCHANGED <<engineVars, obsVars, driverVars, is_running, progress_label, clicks>>

NextGui ==
    \/ UserClick
    \/ Dispatch
    \/ \E i \in 1..Len(workers) : WorkerBegin(i)
    \/ \E i \in 1..Len(workers) : \E outcome \in WorkerOutcomes : WorkerBody(i, outcome)
    \/ \E i \in 1..Len(workers) : WorkerClear(i)
    \/ \E i \in 1..Len(workers) : WorkerEnable(i)

SpecGui == InitGui /\ [][NextGui]_vars

----------------------------------------------------------------------------
(* Properties of the engine.                                               *)

\* the last operation was an update() that ran to its end
UpdateCompleted == lastOp = "update" /\ ~raised

\* C1: after every update() that completes, 0 <= total_energy <=
\* battery_max_energy (battery_max_energy itself being non-negative).
C1_ClampInvariant ==
    UpdateCompleted =>
        /\ 0 <= params["total_energy"]
        /\ params["total_energy"] <= params["battery_max_energy"]

\* an update() whose raw sum fell below zero completed
C1_Witness ==
    /\ UpdateCompleted
    /\ e0 + deltaSum < 0
    /\ params["total_energy"] = 0

\* C2: one update() invokes every registered model once, in registration
\* order, then the battery model once, then clamps.
C2_InvocationOrder ==
    UpdateCompleted => calls = models \o <<battery_model, "clamp">>

\* an update() of two different models, one of them registered after the
\* battery model had been set, completed
C2_Witness ==
    /\ UpdateCompleted
    /\ Len(models) = 2
    /\ models[1] # models[2]
    /\ addAfterSet
    /\ battery_model \in AbstractBatteries

\* C3: after an update() that completes, total_energy is the clamp of the
\* energy before the call plus all the returned deltas; nothing is clamped
\* in between.
C3_SumThenClamp ==
    UpdateCompleted =>
        params["total_energy"] =
            Max(Min(e0 + deltaSum, params["battery_max_energy"]), 0)

\* an update() left the range between two model calls and came back into
\* it unclamped
C3_Witness ==
    /\ UpdateCompleted
    /\ excursion
    /\ e0 + deltaSum >= 0
    /\ e0 + deltaSum <= params["battery_max_energy"]
    /\ params["total_energy"] = e0 + deltaSum

\* C4: as long as only update() calls and overwrites of store entries have
\* happened, reset() leaves the store equal to the initial parameter set.
C4_ResetRestoresInitial ==
    (lastOp = "reset" /\ ~callerMutated) => params = baseline0

\* reset() ran on a store with an added key and a changed initial value
C4_Witness ==
    /\ lastOp = "reset"
    /\ ~callerMutated
    /\ resetDirty
    /\ params = baseline0

\* C5: the baseline is a copy taken at construction: whatever the caller
\* does to its mapping afterwards, reset() restores the construction-time
\* values.
C5_BaselineImmutable ==
    /\ init_params = baseline0
    /\ (lastOp = "reset" /\ callerMutated) => params = baseline0

----------------------------------------------------------------------------
(* Properties of the Solar Array models.                                   *)

\* C6: whenever the incidence factor is not positive, every Solar Array
\* model returns exactly zero energy and leaves array_power at zero.
C6_NightZero ==
    (lastOp = "model_call" /\ ~raised /\ IncidenceFactor(params) <= 0) =>
        /\ ret = 0
        /\ Has(params, "array_power") => params["array_power"] = 0

\* the Solar Array classes that compute an incidence factor
SunArrayModels ==
    {"SCPArrayModelLamination", "SCPArrayModel", "SCPArrayModelWithIncidence"}

\* C22: after an update of a Solar Array model array_power is not negative,
\* array_energy is array_power * timestep, and total_array_energy is its
\* value before the step plus that step's array_energy.
C22_ArrayEnergyAccumulates ==
    (lastOp = "model_call" /\ ~raised /\ calls[1] \in SunArrayModels) =>
        /\ HasAll(params, {"array_power", "array_energy", "total_array_energy"})
        /\ params["array_power"] >= 0
        /\ params["array_energy"] = Energy(params["array_power"], params["timestep"])
        /\ params["total_array_energy"]
               = baseline0["total_array_energy"] + params["array_energy"]

----------------------------------------------------------------------------
(* Properties of the driver.                                               *)

\* the names grid_search sweeps
SweptNames == { search_params[i].name : i \in 1..Len(search_params) }

\* the swept values the k-th run started with
Swept(k) == [n \in SweptNames |-> startStores[k][n]]

\* the store of the run in progress (or just finished) when its loop began
RunStore == startStores[Len(startStores)]

\* C7: in a grid search the store at the start of every configuration's
\* timestep loop is the initial parameter set overridden by that
\* configuration's swept values and nothing else.
C7_GridStartsFromInitial ==
    mode = "grid" =>
        \A k \in 1..Len(startStores) :
            /\ DOMAIN startStores[k] = DOMAIN baseline0 \cup DOMAIN configs[k]
            /\ \A key \in DOMAIN startStores[k] :
                   startStores[k][key] = IF key \in DOMAIN configs[k]
                                         THEN configs[k][key]
                                         ELSE baseline0[key]

\* a third configuration starts after two runs that drained the battery
\* and added model outputs to the store
C7_Witness ==
    /\ mode = "grid" /\ Len(startStores) >= 3 /\ Len(logs) >= 2
    /\ Len(search_params) = 2
    /\ logs[2] # << >>
    /\ logs[2][Len(logs[2])].values["total_energy"] # <<baseline0["total_energy"]>>
    /\ logs[2][Len(logs[2])].values["array_power"] # << >>

\* the values start, start + step, ... that lie strictly below stop
LatticeBelowStop(e) ==
    { v \in { e.start + i * e.step : i \in 0..(MaxStart + MaxStop) } : v < e.stop }

\* the values start, start + step, ... that lie before stop in the
\* direction of the step
LatticeBeforeStop(e) ==
    { v \in { e.start + i * e.step : i \in 0..(MaxStart + MaxStop) } :
          IF e.step > 0 THEN v < e.stop ELSE v > e.stop }

ProductBelowStop ==
    { f \in [SweptNames -> UNION { LatticeBelowStop(search_params[i]) :
                                       i \in 1..Len(search_params) }] :
          \A i \in 1..Len(search_params) :
              f[search_params[i].name] \in LatticeBelowStop(search_params[i]) }

ProductBeforeStop ==
    { f \in [SweptNames -> UNION { LatticeBeforeStop(search_params[i]) :
                                       i \in 1..Len(search_params) }] :
          \A i \in 1..Len(search_params) :
              f[search_params[i].name] \in LatticeBeforeStop(search_params[i]) }

GridReturned == mode = "grid" /\ pc = "done"

ZeroStep == \E i \in 1..Len(search_params) : search_params[i].step = 0

\* C8 as stated: a grid search that returns has simulated, once each,
\* exactly the combinations of the values start, start + step, ... strictly
\* below stop.
C8_ProductBelowStop ==
    GridReturned =>
        /\ { Swept(k) : k \in 1..Len(startStores) } = ProductBelowStop
        /\ Len(startStores) = Cardinality(ProductBelowStop)

\* C8, amended: a grid search that returns has simulated, once each, exactly
\* the combinations of the values start, start + step, ... that lie before
\* stop in the direction of the step (below it for a positive step, above
\* it for a negative one); with a zero step nothing is simulated.
C8_ProductBeforeStop ==
    /\ GridReturned =>
           /\ { Swept(k) : k \in 1..Len(startStores) } = ProductBeforeStop
           /\ Len(startStores) = Cardinality(ProductBeforeStop)
    /\ (mode = "grid" /\ ZeroStep) => startStores = << >>

\* a descending velocity range crossed with two drag coefficients
C8_Witness ==
    /\ GridReturned /\ Len(search_params) = 2
    /\ \E i \in 1..Len(search_params) : search_params[i].step < 0
    /\ Len(startStores) = 4

\* C9: a grid search over one configuration logs the rows that a direct
\* run logs on an engine built from the initial parameters with that
\* configuration's values.
C9_GridOfOneIsDirect ==
    (GridReturned /\ Len(configs) = 1) =>
        logs = << RunSimulation(PutAll(baseline0, configs[1]), Pipeline, "BatteryModel") >>

C9_Witness ==
    /\ GridReturned /\ Len(configs) = 1
    /\ Len(logs[1]) >= 2
    /\ configs[1]["velocity"] # baseline0["velocity"]

\* C10: a run makes floor(raceday_len / timestep) update() calls and returns
\* as many rows; the i-th row (from 0) is stamped start + i * timestep and
\* holds the store's values right after the i-th update().
C10_RowsOfRun ==
    Len(startStores) > 0 =>
        /\ nUpdates = Len(rows)
        /\ Len(afterUpdate) = Len(rows)
        /\ \A i \in 1..Len(rows) :
               /\ rows[i].datetime = StartTime(RunStore) + (i - 1) * RunStore["timestep"]
               /\ \A n \in LogParams : rows[i].values[n] = Logged(afterUpdate[i], n)
        /\ lastOp = "run_simulation" =>
               /\ nUpdates * RunStore["timestep"] <= RunStore["raceday_len"]
               /\ RunStore["raceday_len"] < (nUpdates + 1) * RunStore["timestep"]
               /\ logs[Len(logs)] = rows

\* a finished run whose length is not a multiple of the timestep
C10_Witness ==
    /\ lastOp = "run_simulation"
    /\ RunStore["raceday_len"] % RunStore["timestep"] # 0
    /\ Len(rows) >= 1
    /\ rows[1].values["total_array_energy"] = << >>
    /\ rows[1].values["total_energy"] # << >>

----------------------------------------------------------------------------
(* Properties of the weather injection.                                    *)

\* the four modifier fields the driver derives from the weather
WeatherModifiers ==
    {"weather_temp_modifier", "weather_cloud_modifier", "weather_wind_modifier",
     "weather_road_modifier"}

StepLogged == lastOp = "step" /\ ~raised

\* the weather record of the step just logged
StepWeather == GetWeatherAtTime(weather_data, rows[Len(rows)].datetime)

\* C11: in every step the driver's writes (timestamp and, with weather
\* loaded, the modifiers) are in the store update() runs on, so the models
\* of that step compute with them, and the store the row is read from is
\* the store update() left: the driver writes nothing in between.
C11_WritesBeforeUpdate ==
    StepLogged =>
        /\ \A k \in DOMAIN injected \ {"total_energy"} :
               (k = "timestamp" \/ k \in WeatherModifiers) => params[k] = injected[k]
        /\ params["timestamp"] = SecSinceMidnight(rows[Len(rows)].datetime)
        /\ weather_model = "loaded" =>
               /\ params["weather_temp_modifier"] = TemperatureModifier(StepWeather.temperature)
               /\ params["weather_road_modifier"]
                      = RollingResistanceModifier(StepWeather.precipitation)
               /\ params["pack_resistance"] = PackResistance(injected)
               /\ params["drag_power"] = DragPower(injected)
        /\ params = afterUpdate[Len(afterUpdate)]
        /\ rows[Len(rows)] = Row(rows[Len(rows)].datetime, params)

\* the first step of a run under a hot hour with a headwind
C11_Witness ==
    /\ StepLogged /\ weather_model = "loaded" /\ Len(rows) = 1
    /\ params["weather_temp_modifier"] < 100
    /\ params["weather_wind_modifier"] > 100
    /\ params["pack_resistance"] # PackResistance(startStores[1])
    /\ params["drag_power"] # DragPower(startStores[1])

\* C12: when the weather fetch fails with use_weather_data enabled, the
\* fallback is logged, the run still makes all its steps, and no step
\* writes a weather modifier into the store.
C12_FetchFailureFallsBack ==
    fetch_reply = "error" =>
        /\ fallbackLogged
        /\ WeatherModifiers \cap DOMAIN params = {}
        /\ \A i \in 1..Len(afterUpdate) : WeatherModifiers \cap DOMAIN afterUpdate[i] = {}
        /\ pc # "crashed"
        /\ lastOp = "run_simulation" =>
               /\ nUpdates = RunStore["raceday_len"] \div RunStore["timestep"]
               /\ Len(logs[Len(logs)]) = nUpdates

\* a run of several steps finished after the service failed
C12_Witness ==
    /\ fetch_reply = "error" /\ lastOp = "run_simulation"
    /\ HasAll(RunStore, {"latitude_deg", "longitude_deg"})
    /\ UseWeather(RunStore)
    /\ Len(rows) >= 2

----------------------------------------------------------------------------
(* Properties of main's handling of --grid-search.                         *)

WellFormedArgs == SelectSeq(grid_args, LAMBDA it : WellFormed(it))

MalformedArgs == SelectSeq(grid_args, LAMBDA it : ~WellFormed(it))

C14_AllMalformedAborts ==
    (parsed /\ grid_args # << >> /\ WellFormedArgs = << >>) => startStores = << >>

----------------------------------------------------------------------------
(* Properties of the log.                                                  *)

\* a finished run whose frame was written out and graphed
RunWrittenOut == lastOp = "run_simulation" /\ pc # "crashed"

\* the requested names that were in the store after no update() of the run
AbsentNames ==
    { n \in LogParams : \A i \in 1..Len(afterUpdate) : ~Has(afterUpdate[i], n) }

\* C15: a requested name absent from the store is flagged: its entry in
\* every row is the missing value, never 0, and the run reports the name
\* as not found.
C15_AbsentFlagged ==
    RunWrittenOut =>
        \A n \in AbsentNames :
            /\ \A i \in 1..Len(rows) : rows[i].values[n] = << >>
            /\ n \in reported

----------------------------------------------------------------------------
(* Properties of the loss models.                                          *)

ModelReturned(m) == lastOp = "model_call" /\ calls = <<m>> /\ ~raised

\* C16: for non-negative velocity, coefficients, weights and gravity the
\* rolling-resistance model writes rr_power <= 0 and returns a delta <= 0,
\* and rr_power is twice the front-wheel power plus the rear-wheel power.
C16_RollingResistanceIsLoss ==
    ModelReturned("SCPRollingResistanceModel") =>
        /\ params["rr_power"] <= 0
        /\ ret <= 0
        /\ params["rr_power"] = 2 * params["f_rr_power"] + params["r_rr_power"]
        /\ params["f_rr_power"]
               = 0 - (params["f_wheel_weight"] * params["grav_accel"]
                      * (params["mu_rr"] + params["mu2_rr"] * params["velocity"])
                      * params["velocity"])
        /\ params["r_rr_power"]
               = 0 - (params["r_wheel_weight"] * params["grav_accel"]
                      * (params["mu_rr"] + params["mu2_rr"] * params["velocity"])
                      * params["velocity"])
        /\ ret * SecondsPerHour = params["rr_power"] * params["timestep"]

\* a moving car with unequal wheel loads and a speed-dependent coefficient
C16_Witness ==
    /\ ModelReturned("SCPRollingResistanceModel")
    /\ params["velocity"] = MaxVelocity /\ params["mu2_rr"] > 0
    /\ params["f_wheel_weight"] # params["r_wheel_weight"]
    /\ params["f_rr_power"] < 0 /\ params["r_rr_power"] < 0
    /\ ret < params["rr_power"]

\* C17: the delta the battery loss model returns is never positive, with
\* or without the temperature modifier of a weather temperature.
C17_BatteryLossNotPositive ==
    ModelReturned("BatteryModel") =>
        /\ ret <= 0
        /\ params["battery_power_loss"] >= 0
        /\ ret * SecondsPerHour = 0 - params["battery_power_loss"] * params["timestep"]

\* a loaded pack on a hot day: the resistance is raised and energy is lost
C17_Witness ==
    /\ ModelReturned("BatteryModel")
    /\ Has(params, "weather_temp_modifier") /\ params["weather_temp_modifier"] < 100
    /\ params["current_draw"] < 0
    /\ params["pack_resistance"]
           > (params["cell_internal_impedance"] \div params["cells_in_parallel"])
             * params["cells_in_series"]
    /\ ret < 0

----------------------------------------------------------------------------
(* Properties of the pipeline composition.                                 *)

\* C18: an engine whose battery model is the default one has a no-op
\* battery step: update() needs no store key for it and the battery adds 0.
C18_DefaultBatteryNoOp ==
    (lastOp = "update" /\ battery_model = "BatteryModel") =>
        /\ ~raised
        /\ params["total_energy"]
               = Max(Min(e0 + deltaSum, params["battery_max_energy"]), 0)
        /\ DOMAIN params \ DOMAIN baseline0 \subseteq { OutKey(m) : m \in AbstractModels }

\* C19: main registers rolling resistance, drag, array and motor loss, then
\* the battery model, and in every step of that pipeline no model fails on
\* a key: whatever a model reads of another model's output is already there.
C19_MainPipelineOrdered ==
    /\ lastOp = "register" =>
           /\ pc # "crashed"
           /\ models = MainPipeline
           /\ battery_model = "BatteryModel"
    /\ lastOp = "step" => ~raised

\* the keys LVDrawModel.update reads: the voltage and one current per
\* component
LVRequired == {"lv_voltage"} \cup { LVComponents[i] : i \in 1..Len(LVComponents) }

\* C20: a model fails the step when a store key it requires is absent; it
\* never computes with an implicit zero in its place.
C20_MissingKeyFails ==
    (lastOp = "model_call" /\ calls = <<"LVDrawModel">>
         /\ ~(LVRequired \subseteq DOMAIN baseline0)) => raised

----------------------------------------------------------------------------
(* Properties of the drag model.                                           *)

\* C23: for non-negative velocity, drag coefficient, air density and
\* frontal area and every wind modifier get_wind_modifier returns, the drag
\* model writes drag_power <= 0 and returns exactly drag_power * timestep.
C23_DragIsLoss ==
    ModelReturned("SCPDragModel") =>
        /\ params["drag_power"] <= 0
        /\ ret <= 0
        /\ ret * SecondsPerHour = params["drag_power"] * params["timestep"]

\* a moving vehicle in a headwind: the modifier is above 1 and energy is lost
C23_Witness ==
    /\ ModelReturned("SCPDragModel")
    /\ Has(params, "weather_wind_modifier") /\ params["weather_wind_modifier"] > 100
    /\ params["velocity"] > 0
    /\ params["drag_power"] < 0
    /\ ret < params["drag_power"]

----------------------------------------------------------------------------
(* Properties of the weather coupling of the rolling-resistance model.     *)

\* C24: in a step with weather loaded the rolling-resistance model reads
\* the injected weather_road_modifier: the rr_power it writes is the
\* modifier times the rr_power of the same store without the modifier.
C24_RoadModifierScales ==
    (StepLogged /\ weather_model = "loaded") =>
        params["rr_power"] * 100
            = params["weather_road_modifier"]
              * (2 * WheelRRPower(injected, injected["f_wheel_weight"])
                 + WheelRRPower(injected, injected["r_wheel_weight"]))

----------------------------------------------------------------------------
(* Properties of a depleted battery.                                       *)

\* C25: an update() that completes with summed deltas <= 0 on a store whose
\* total_energy is 0 leaves total_energy at 0: once depleted, the energy is
\* never negative and never rises until a reset or an overwrite.
C25_DepletedStaysDepleted ==
    [][(/\ lastOp' = "update" /\ ~raised'
        /\ Has(params, "total_energy") /\ params["total_energy"] = 0
        /\ deltaSum' <= 0)
           => params'["total_energy"] = 0]_vars

\* a second update() that discharges found the battery depleted by the
\* update() before it and completed
C25_Witness ==
    /\ UpdateCompleted
    /\ e0 = 0 /\ deltaSum < 0
    /\ Len(models) > 0
    /\ params["total_energy"] = 0

----------------------------------------------------------------------------
(* Properties relating two runs of update().                               *)

\* update() on the store of the step just logged with total_energy
\* replaced by e
UpdateWithEnergy(e) ==
    VehicleModel_update(Put(injected, "total_energy", e), models, battery_model, NoDeltas)

\* C26: what the models write does not depend on the stored energy: an
\* update() on a store that differs from the step's store only in
\* total_energy (an empty or a full battery) completes as well and leaves
\* identical values under every key other than total_energy.
C26_EnergyIndependent ==
    StepLogged =>
        \A e \in {0, params["battery_max_energy"]} :
            /\ ~UpdateWithEnergy(e).raised
            /\ DOMAIN UpdateWithEnergy(e).params = DOMAIN params
            /\ \A k \in DOMAIN params \ {"total_energy"} :
                   UpdateWithEnergy(e).params[k] = params[k]

\* a step of a charged vehicle in which the drag, rolling-resistance, array
\* and battery models all wrote non-zero outputs
C26_Witness ==
    /\ StepLogged
    /\ injected["total_energy"] > 0
    /\ params["drag_power"] < 0 /\ params["rr_power"] < 0
    /\ params["array_power"] > 0
    /\ params["current_draw"] < 0 /\ params["battery_power_loss"] > 0
    /\ params["pack_resistance"] > 0

----------------------------------------------------------------------------
(* Properties of an update() in which a model raises.                      *)

\* the models update() invokes, in order
Invoked == models \o <<battery_model>>

\* C27: when a model raises during update(), the models after it and the
\* clamp do not run, and the store keeps the fields written and the deltas
\* added to total_energy before the failure; a reset() after it still
\* restores the initial parameter set.
C27_NoRollback ==
    [][/\ (lastOp' = "update" /\ raised') =>
              /\ Len(calls') \in 1..Len(Invoked)
              /\ calls' = SubSeq(Invoked, 1, Len(calls'))
              /\ params'["total_energy"] = params["total_energy"] + deltaSum'
              /\ \A i \in 1..(Len(calls') - 1) :
                     calls'[i] \in AbstractModels => Has(params', OutKey(calls'[i]))
              /\ \A k \in DOMAIN params \ {"total_energy"} :
                     Has(params', k) /\ params'[k] = params[k]
       /\ (lastOp = "update" /\ raised /\ lastOp' = "reset") => params' = baseline0]_vars

\* the second of two registered models raised after the first had written
\* its field and its delta had been added: the battery model and the clamp
\* did not run and total_energy is left below zero
C27_Witness ==
    /\ lastOp = "update" /\ raised
    /\ Len(models) = 2 /\ Len(calls) = 2
    /\ calls[1] \in AbstractModels /\ calls[2] \in FailingModels
    /\ Has(params, OutKey(calls[1]))
    /\ deltaSum < 0
    /\ params["total_energy"] = e0 + deltaSum
    /\ params["total_energy"] < 0

----------------------------------------------------------------------------
(* Properties of the low-voltage draw model.                               *)

\* the current the claim attributes to component c: its _peak value when
\* enable_peak_draw is 1 and that key exists, else its constant value
ClaimedCurrent(c) ==
    IF Has(params, "enable_peak_draw") /\ params["enable_peak_draw"] = 1
       /\ Has(params, c \o "_peak")
    THEN params[c \o "_peak"]
    ELSE IF Has(params, c) THEN params[c] ELSE 0

\* C28: for non-negative currents and voltage the low-voltage draw model
\* returns a delta <= 0; with enable_peak_draw = 1 each component counts
\* with its _peak value if that key exists and with its constant value
\* otherwise, and with the flag absent or not 1 no _peak value counts.
C28_PeakDrawSelection ==
    ModelReturned("LVDrawModel") =>
        /\ ret <= 0
        /\ params["lv_draw_power"]
               = params["lv_voltage"]
                 * (ClaimedCurrent("vcu") + ClaimedCurrent("horn") + ClaimedCurrent("pump"))
        /\ ret * SecondsPerHour = 0 - params["lv_draw_power"] * params["timestep"]

\* peak mode with a peak current for one component and only a constant
\* current for another
C28_Witness ==
    /\ ModelReturned("LVDrawModel")
    /\ Has(params, "enable_peak_draw") /\ params["enable_peak_draw"] = 1
    /\ HasAll(params, {"vcu", "vcu_peak", "horn"})
    /\ params["vcu_peak"] # params["vcu"]
    /\ ~Has(params, "pump")
    /\ params["lv_draw_power"] = params["lv_voltage"] * (params["vcu_peak"] + params["horn"])
    /\ ret < 0

----------------------------------------------------------------------------
(* Properties of the motor-loss stage.                                     *)

\* C21: the motor-loss model is registered in main's pipeline, so that each
\* step invokes its update(params, timestep): once main has registered its
\* models, MotorLossModel is one of them and main goes on to run.
C21_MotorLossRegistered ==
    lastOp = "register" =>
        /\ \E i \in 1..Len(models) : models[i] = "MotorLossModel"
        /\ pc \in {"parse", "main"}

\* P_motor_input of the call just made
CalledMotorInput ==
    MotorInput(params, (calls[1].tau_S * 1000) \div params.k_S, calls[1].tau_S,
               calls[1].N_rpm, calls[1].use_stray_model)

\* C29: motor_efficiency guards its divisions: for every torque, speed and
\* configuration in which the motor input power is <= 0 it returns, with
\* both efficiencies 0, instead of failing on a division by zero.
C29_EfficiencyGuarded ==
    (lastOp = "motor_efficiency" /\ params.k_S # 0 /\ CalledMotorInput <= 0) =>
        /\ ~raised
        /\ ret.eta_motor = 0
        /\ ret.eta_system = 0


----------------------------------------------------------------------------
(* Properties of the desktop GUI.                                          *)

\* the worker threads that have not left their finally block
ActiveWorkers == { i \in 1..Len(workers) : workers[i] \in Active }

\* C30: under every interleaving of Run clicks with the worker at most one
\* worker thread is active, and while one is (from the click that started
\* it, before it has set is_running, until its finally block has cleared
\* is_running and re-enabled the button) no click starts a second run.
C30_SingleWorker ==
    /\ Cardinality(ActiveWorkers) <= 1
    /\ ActiveWorkers # {} => run_button = "disabled"
    /\ is_running => ActiveWorkers # {}

\* a second worker has just been started and has not set is_running yet,
\* the first one is through its finally block, and a further click waits
C30_Witness ==
    /\ Len(workers) = 2
    /\ workers[1] = "done" /\ workers[2] = "started"
    /\ ~is_running /\ run_button = "disabled"
    /\ clicks > 0


====
